---- MODULE Spec2Model ----
(***************************************************************************)
(* markdown2word: the line-oriented Markdown parser                        *)
(* (parseMarkdownToSections, parseTable), the document assembly loop of    *)
(* exportToDocx, and the AST-based parseMarkdownToSections.                *)
(*                                                                         *)
(* A string is a sequence of one-character strings.  A Markdown input is   *)
(* the list of its lines (markdown.split('\n')); a line holds no "\n".     *)
(***************************************************************************)
EXTENDS Integers, Sequences, FiniteSets, TLC

(***************************************************************************)
(* Bounds of the model.                                                    *)
(***************************************************************************)
MaxLines == 4
MaxExportLines == 3
MaxNodes == 3
MaxPieces == 3
MaxTreeNodes == 5

\* the math occurrences of one export in image mode
MaxMathItems == 2

\* the characters of a paragraph text given to the inline splicer
MaxTextLen == 6

\* the pieces of a string given to latexToComponents
MaxComponentPieces == 3

\* the iterations of the main loop of latexToComponents that are followed
MaxIterations == 4
MaxCalls == 2
MaxBlocks == 2
MaxEffectRuns == 4
MaxEdits == 7
MaxClicks == 6

(***************************************************************************)
(* String primitives of the JavaScript runtime the parser uses.            *)
(***************************************************************************)
Undefined == <<"undefined">>

\* The backtick character U+0060, which a TLA+ string literal cannot hold.
Backtick == "BACKTICK"

Fence3 == <<Backtick, Backtick, Backtick>>

IsSpace(c) == c \in {" ", "\t"}

IsDigit(c) == c \in {"0", "1", "2", "3", "4", "5", "6", "7", "8", "9"}

RECURSIVE TrimStart(_)
TrimStart(s) ==
  IF s # << >> /\ IsSpace(Head(s)) THEN TrimStart(Tail(s)) ELSE s

RECURSIVE TrimEnd(_)
TrimEnd(s) ==
  IF s # << >> /\ IsSpace(s[Len(s)]) THEN TrimEnd(SubSeq(s, 1, Len(s) - 1)) ELSE s

Trim(s) == TrimEnd(TrimStart(s))

Includes(s, c) == \E k \in 1..Len(s) : s[k] = c

StartsWith(s, prefix) ==
  /\ Len(s) >= Len(prefix)
  /\ SubSeq(s, 1, Len(prefix)) = prefix

EndsWith(s, suffix) ==
  /\ Len(s) >= Len(suffix)
  /\ SubSeq(s, Len(s) - Len(suffix) + 1, Len(s)) = suffix

RECURSIVE Join(_, _)
Join(parts, sep) ==
  IF parts = << >> THEN << >>
  ELSE IF Len(parts) = 1 THEN parts[1]
  ELSE parts[1] \o sep \o Join(Tail(parts), sep)

\* s.split(c) for a one-character separator: never empty, '' splits to [''].
RECURSIVE SplitFrom(_, _, _)
SplitFrom(s, c, cur) ==
  IF s = << >> THEN <<cur>>
  ELSE IF Head(s) = c THEN <<cur>> \o SplitFrom(Tail(s), c, << >>)
  ELSE SplitFrom(Tail(s), c, Append(cur, Head(s)))

Split(s, c) == SplitFrom(s, c, << >>)

\* s.replace(/c/g, '')
RemoveChar(s, c) == SelectSeq(s, LAMBDA x : x # c)

\* s.replace(/```/g, ''): leftmost non-overlapping matches are dropped.
RECURSIVE RemoveFences(_)
RemoveFences(s) ==
  IF s = << >> THEN << >>
  ELSE IF StartsWith(s, Fence3) THEN RemoveFences(SubSeq(s, 4, Len(s)))
  ELSE <<Head(s)>> \o RemoveFences(Tail(s))

\* trimmedLine.match(/^#+/)?.[0].length
RECURSIVE LeadingHashes(_)
LeadingHashes(s) ==
  IF s # << >> /\ Head(s) = "#" THEN 1 + LeadingHashes(Tail(s)) ELSE 0

\* trimmedLine.replace(/^#+\s*/, '')
StripHeading(s) == TrimStart(SubSeq(s, LeadingHashes(s) + 1, Len(s)))

\* trimmedLine.replace(/^>\s?/, '')
StripQuote(s) ==
  IF s # << >> /\ Head(s) = ">"
  THEN IF Len(s) >= 2 /\ IsSpace(s[2]) THEN SubSeq(s, 3, Len(s)) ELSE Tail(s)
  ELSE s

RECURSIVE LeadingDigits(_)
LeadingDigits(s) ==
  IF s # << >> /\ IsDigit(Head(s)) THEN 1 + LeadingDigits(Tail(s)) ELSE 0

\* Length of the match of /^([-*]|\d+\.)\s/, 0 when there is none.
ListMarkerLen(s) ==
  IF Len(s) >= 2 /\ s[1] \in {"-", "*"} /\ IsSpace(s[2]) THEN 2
  ELSE LET d == LeadingDigits(s) IN
       IF d >= 1 /\ Len(s) >= d + 2 /\ s[d + 1] = "." /\ IsSpace(s[d + 2])
       THEN d + 2 ELSE 0

\* trimmedLine.match(/^[-*]\s/) || trimmedLine.match(/^\d+\.\s/)
IsListLine(s) == ListMarkerLen(s) > 0

\* Variant: the marker is dropped and the whitespace after it is kept.
StripListMarkerOnly(s) == SubSeq(s, ListMarkerLen(s), Len(s))

\* trimmedLine.replace(/^([-*]|\d+\.)\s/, '')
StripListMarker(s) == SubSeq(s, ListMarkerLen(s) + 1, Len(s))

IsRuleLine(s) ==
  s \in {<<"-", "-", "-">>, <<"*", "*", "*">>, <<"_", "_", "_">>}

(***************************************************************************)
(* parseTable.                                                             *)
(***************************************************************************)
\* row.replace(/\|/g, '').trim() matches /^[- :]+$/
IsSeparatorRow(row) ==
  LET clean == Trim(RemoveChar(row, "|")) IN
  /\ clean # << >>
  /\ \A k \in 1..Len(clean) : clean[k] \in {"-", " ", ":"}

MapTrim(parts) == [k \in 1..Len(parts) |-> Trim(parts[k])]

extractCells(row) ==
  LET trimmed == Trim(row)
      parts   == Split(trimmed, "|")
  IN IF StartsWith(trimmed, <<"|">>) /\ EndsWith(trimmed, <<"|">>)
     THEN MapTrim(SubSeq(parts, 2, Len(parts) - 1))
     ELSE MapTrim(parts)

\* The value undefined of type ParsedTable | undefined.
NoTable == [defined |-> FALSE, headers |-> << >>, rows |-> << >>]

parseTable(rows) ==
  IF Len(rows) < 2 THEN NoTable
  ELSE LET contentRows == SelectSeq(rows, LAMBDA r : ~IsSeparatorRow(r)) IN
       IF Len(contentRows) = 0 THEN NoTable
       ELSE [defined |-> TRUE,
             headers |-> extractCells(contentRows[1]),
             rows    |-> [k \in 1..(Len(contentRows) - 1) |->
                            extractCells(contentRows[k + 1])]]

(***************************************************************************)
(* ContentType and ContentBlock.  The field line is a history field: the   *)
(* index of the first source line the block was built from.                *)
(***************************************************************************)
PARAGRAPH == "paragraph"
CODE_BLOCK == "code_block"
TABLE == "table"
LIST_ITEM == "list_item"
BLOCKQUOTE == "blockquote"
HR == "hr"

MathLanguage == <<"m", "a", "t", "h">>

MermaidLanguage == <<"m", "e", "r", "m", "a", "i", "d">>

\* The literal title of the implicit first section.
DefaultTitle == <<"Introduction">>

Block(type, content, language, tableData, line) ==
  [type |-> type, content |-> content, language |-> language,
   tableData |-> tableData, line |-> line]

(***************************************************************************)
(* The locals of the line parser parseMarkdownToSections, as one record.   *)
(* codeStart, mathStart, tableStart and quoteStart are history fields: the *)
(* line that opened the mode; rowLines the lines pushed to tableRows;       *)
(* closed every section the parser ended, appended to the result or not.   *)
(* A section's field line is a history field too: its heading's line, 0    *)
(* for the implicit first section.                                         *)
(***************************************************************************)
InitParser ==
  [i |-> 1,
   sections |-> << >>,
   currentSection |-> [title |-> DefaultTitle, level |-> 1, blocks |-> << >>,
                       line |-> 0],
   inCodeBlock |-> FALSE, codeBlockContent |-> << >>, codeLanguage |-> << >>,
   inMathBlock |-> FALSE, mathBlockContent |-> << >>,
   inTable |-> FALSE, tableRows |-> << >>,
   inBlockquote |-> FALSE, blockquoteContent |-> << >>,
   codeStart |-> 0, mathStart |-> 0, tableStart |-> 0, quoteStart |-> 0,
   rowLines |-> {}, closed |-> << >>]

PushBlock(st, b) ==
  [st EXCEPT !.currentSection.blocks = Append(@, b)]

flushCodeBlock(st) ==
  IF Len(st.codeBlockContent) > 0
  THEN [PushBlock(st, Block(CODE_BLOCK, Join(st.codeBlockContent, <<"\n">>),
                            Trim(st.codeLanguage), NoTable, st.codeStart))
          EXCEPT !.codeBlockContent = << >>, !.codeLanguage = << >>]
  ELSE st

flushMathBlock(st) ==
  IF Len(st.mathBlockContent) > 0
  THEN [PushBlock(st, Block(CODE_BLOCK, Join(st.mathBlockContent, <<"\n">>),
                            MathLanguage, NoTable, st.mathStart))
          EXCEPT !.mathBlockContent = << >>]
  ELSE st

flushTable(st) ==
  IF Len(st.tableRows) > 0
  THEN LET parsed == parseTable(st.tableRows) IN
       [(IF parsed.defined
         THEN PushBlock(st, Block(TABLE, << >>, Undefined, parsed, st.tableStart))
         ELSE st)
          EXCEPT !.tableRows = << >>]
  ELSE st

flushBlockquote(st) ==
  IF Len(st.blockquoteContent) > 0
  THEN [PushBlock(st, Block(BLOCKQUOTE, Join(st.blockquoteContent, <<"\n">>),
                            Undefined, NoTable, st.quoteStart))
          EXCEPT !.blockquoteContent = << >>]
  ELSE st

\* if (inTable) { inTable = false; flushTable(); }
CloseTable(st) ==
  IF st.inTable THEN flushTable([st EXCEPT !.inTable = FALSE]) ELSE st

\* Variant: an open blockquote is left open.
LeaveBlockquote(st) == st

\* if (inBlockquote) { inBlockquote = false; flushBlockquote(); }
CloseBlockquote(st) ==
  IF st.inBlockquote THEN flushBlockquote([st EXCEPT !.inBlockquote = FALSE]) ELSE st

\* continue, or the end of the loop body: i++
Continue(st) == [st EXCEPT !.i = @ + 1]

(***************************************************************************)
(* The body of the loop over the lines, one operator per branch.  L is the *)
(* list of lines and st.i the (1-based) index of the line being processed. *)
(***************************************************************************)
trimmedLine(st, L) == Trim(L[st.i])

\* lines[i + 1]?.trim()
nextLine(st, L) == IF st.i + 1 <= Len(L) THEN Trim(L[st.i + 1]) ELSE Undefined

\* a string value in a condition: undefined and '' are falsy
Truthy(s) == s # Undefined /\ s # << >>

\* Variant: the lookahead without the test for a -.
NextHasPipe(st, L) ==
  LET n == nextLine(st, L) IN Truthy(n) /\ Includes(n, "|")

\* nextLine && nextLine.includes('|') && nextLine.includes('-')
NextIsSeparator(st, L) ==
  LET n == nextLine(st, L) IN Truthy(n) /\ Includes(n, "|") /\ Includes(n, "-")

\* !nextLine || !nextLine.includes('|')
TableEnds(st, L) ==
  LET n == nextLine(st, L) IN ~Truthy(n) \/ ~Includes(n, "|")

\* 0. trimmedLine === '$$'
OnMathFence(st, L) ==
  IF st.inMathBlock
  THEN Continue(flushMathBlock([st EXCEPT !.inMathBlock = FALSE]))
  ELSE IF st.inCodeBlock
  THEN Continue([st EXCEPT !.codeBlockContent = Append(@, L[st.i])])
  ELSE Continue([CloseBlockquote(CloseTable(st))
                   EXCEPT !.inMathBlock = TRUE, !.mathStart = st.i])

\* Variant: the trimmed line is pushed.
OnMathContentTrimmed(st, L) ==
  Continue([st EXCEPT !.mathBlockContent = Append(@, Trim(L[st.i]))])

\* if (inMathBlock) { mathBlockContent.push(line); continue; }
OnMathContent(st, L) ==
  Continue([st EXCEPT !.mathBlockContent = Append(@, L[st.i])])

\* 1. trimmedLine.startsWith('```')
OnFence(st, L) ==
  IF st.inCodeBlock
  THEN Continue(flushCodeBlock([st EXCEPT !.inCodeBlock = FALSE]))
  ELSE Continue([CloseBlockquote(CloseTable(st))
                   EXCEPT !.inCodeBlock = TRUE,
                          !.codeLanguage = RemoveFences(trimmedLine(st, L)),
                          !.codeStart = st.i])

\* if (inCodeBlock) { codeBlockContent.push(line); continue; }
OnCodeContent(st, L) ==
  Continue([st EXCEPT !.codeBlockContent = Append(@, L[st.i])])

\* Variant: the section is appended whether it holds a block or not.
SaveSectionAlways(st) ==
  [st EXCEPT !.sections = Append(@, st.currentSection),
             !.closed = Append(@, st.currentSection)]

\* if (currentSection.blocks.length > 0) sections.push({ ...currentSection })
SaveSection(st) ==
  [st EXCEPT !.sections = IF Len(st.currentSection.blocks) > 0
                          THEN Append(@, st.currentSection) ELSE @,
             !.closed = Append(@, st.currentSection)]

\* 2. trimmedLine.startsWith('#')
OnHeading(st, L) ==
  LET t     == trimmedLine(st, L)
      saved == SaveSection(CloseBlockquote(CloseTable(st)))
      level == IF LeadingHashes(t) # 0 THEN LeadingHashes(t) ELSE 1
      title == StripHeading(t)
  IN Continue([saved EXCEPT !.currentSection =
                 [title |-> title, level |-> level, blocks |-> << >>,
                  line |-> st.i]])

\* tableRows.push(trimmedLine) and the lookahead that ends the table
AccumulateRow(st, L) ==
  LET pushed == [st EXCEPT !.tableRows = Append(@, trimmedLine(st, L)),
                           !.rowLines = @ \cup {st.i}] IN
  Continue(IF TableEnds(st, L)
           THEN flushTable([pushed EXCEPT !.inTable = FALSE])
           ELSE pushed)

\* 3. trimmedLine.includes('|')
OnPipe(st, L) ==
  IF ~st.inTable
  THEN IF NextIsSeparator(st, L)
       THEN AccumulateRow(
              CloseBlockquote([st EXCEPT !.inTable = TRUE, !.tableRows = << >>,
                                         !.tableStart = st.i]), L)
       ELSE Continue(IF Len(trimmedLine(st, L)) > 0
                     THEN PushBlock(st, Block(PARAGRAPH, trimmedLine(st, L),
                                              Undefined, NoTable, st.i))
                     ELSE st)
  ELSE AccumulateRow(st, L)

\* 4. trimmedLine.startsWith('>')
OnBlockquote(st, L) ==
  LET closed == CloseTable(st)
      opened == IF ~closed.inBlockquote
                THEN [closed EXCEPT !.inBlockquote = TRUE,
                                    !.blockquoteContent = << >>,
                                    !.quoteStart = st.i]
                ELSE closed
  IN Continue([opened EXCEPT !.blockquoteContent =
                 Append(@, StripQuote(trimmedLine(st, L)))])

\* if (inBlockquote && !trimmedLine.startsWith('>')) { ... }
EndQuoteRun(st, L) ==
  IF st.inBlockquote /\ ~StartsWith(trimmedLine(st, L), <<">">>)
  THEN flushBlockquote([st EXCEPT !.inBlockquote = FALSE])
  ELSE st

\* 5. a list item
OnListItem(st, L) ==
  Continue(PushBlock(CloseBlockquote(CloseTable(EndQuoteRun(st, L))),
                     Block(LIST_ITEM, StripListMarker(trimmedLine(st, L)),
                           Undefined, NoTable, st.i)))

\* 6. a horizontal rule
OnRule(st, L) ==
  Continue(PushBlock(CloseBlockquote(CloseTable(EndQuoteRun(st, L))),
                     Block(HR, << >>, Undefined, NoTable, st.i)))

\* 7. plain text
OnParagraph(st, L) ==
  Continue(PushBlock(CloseBlockquote(CloseTable(EndQuoteRun(st, L))),
                     Block(PARAGRAPH, trimmedLine(st, L), Undefined, NoTable, st.i)))

\* a blank line falls through every branch
OnBlank(st, L) == Continue(EndQuoteRun(st, L))

\* after the loop: flush what is still open and append the last section
OnEnd(st) ==
  LET s1 == IF st.inTable THEN flushTable(st) ELSE st
      s2 == IF s1.inCodeBlock THEN flushCodeBlock(s1) ELSE s1
      s3 == IF s2.inMathBlock THEN flushMathBlock(s2) ELSE s2
      s4 == IF s3.inBlockquote THEN flushBlockquote(s3) ELSE s3
  IN SaveSection(s4)

\* The branch the loop body takes for line st.i.
LineKind(st, L) ==
  LET t == trimmedLine(st, L) IN
  IF t = <<"$", "$">> THEN "mathFence"
  ELSE IF st.inMathBlock THEN "mathContent"
  ELSE IF StartsWith(t, Fence3) THEN "fence"
  ELSE IF st.inCodeBlock THEN "codeContent"
  ELSE IF StartsWith(t, <<"#">>) THEN "heading"
  ELSE IF Includes(t, "|") THEN "pipe"
  ELSE IF StartsWith(t, <<">">>) THEN "blockquote"
  ELSE IF IsListLine(t) THEN "listItem"
  ELSE IF IsRuleLine(t) THEN "rule"
  ELSE IF Len(t) > 0 THEN "paragraph"
  ELSE "blank"

StepLine(st, L) ==
  LET k == LineKind(st, L) IN
  CASE k = "mathFence"   -> OnMathFence(st, L)
    [] k = "mathContent" -> OnMathContent(st, L)
    [] k = "fence"       -> OnFence(st, L)
    [] k = "codeContent" -> OnCodeContent(st, L)
    [] k = "heading"     -> OnHeading(st, L)
    [] k = "pipe"        -> OnPipe(st, L)
    [] k = "blockquote"  -> OnBlockquote(st, L)
    [] k = "listItem"    -> OnListItem(st, L)
    [] k = "rule"        -> OnRule(st, L)
    [] k = "paragraph"   -> OnParagraph(st, L)
    [] OTHER             -> OnBlank(st, L)

\* parseMarkdownToSections(markdown) for markdown = L.join('\n'), run to its end.
RECURSIVE RunParser(_, _)
RunParser(st, L) ==
  IF st.i > Len(L) THEN OnEnd(st) ELSE RunParser(StepLine(st, L), L)

parseLines(L) == RunParser(InitParser, L).sections

(***************************************************************************)
(* getHeadingLevel and the elements exportToDocx appends to docChildren.   *)
(* sec and blk are history fields: the section and block an element was    *)
(* emitted for (blk = 0 for a heading, sec = 0 for the document title).    *)
(***************************************************************************)
\* Variant: no default case.
getHeadingLevelUnchecked(level) == level

getHeadingLevel(level) == IF level \in 1..6 THEN level ELSE 1

Element(kind, role, heading, text, sec, blk) ==
  [kind |-> kind, role |-> role, heading |-> heading, text |-> text,
   sec |-> sec, blk |-> blk]

TitleElement == Element("Paragraph", "title", 0, << >>, 0, 0)

(***************************************************************************)
(* generateMermaidImage.  The diagram renderer and the browser's image     *)
(* pipeline are collaborators; an outcome names what they do during one    *)
(* call: "rendered" is the run in which every step succeeds, the others    *)
(* name the first step that does not.                                      *)
(***************************************************************************)
MermaidOutcomes ==
  {"rendered", "initializeThrew", "renderRejected", "renderSilent",
   "encodeThrew", "imageError", "imageSilent", "noContext", "noBlob",
   "bufferRejected"}

\* options.chartTheme, the same for every block of one export
chartTheme == "default"

\* const cacheKey = `${theme}|${code}`
cacheKey(theme, code) == <<theme, code>>

\* How mermaid.render(id, code) settles under an outcome.
RenderSettles(outcome) ==
  IF outcome = "renderRejected" THEN "rejected"
  ELSE IF outcome = "renderSilent" THEN "never"
  ELSE "resolved"

\* withTimeout(promise, ms): the promise's value if it resolves before the
\* timer fires, null if it rejects or the timer fires first.
withTimeout(settles) == IF settles = "resolved" THEN "value" ELSE "null"

\* The result of one call: image is TRUE for a buffer and FALSE for null,
\* threw tells that the call rejected, cache is mermaidImageCache after it.
MermaidReturned(image, cache) == [image |-> image, threw |-> FALSE, cache |-> cache]

MermaidThrew(cache) == [image |-> FALSE, threw |-> TRUE, cache |-> cache]

\* The image promise: onload with a context and a blob resolves the buffer;
\* onerror, a missing context and a null blob resolve null; when nothing
\* resolves it (onload never fires, arrayBuffer rejects) the timer does.
ImagePromise(outcome) == outcome = "rendered"

\* mermaidImageCache is a set of entries, at most one for a key; bytes are
\* named by the theme and the code they were rendered from.
CacheEntry(key, bytes) == [key |-> key, bytes |-> bytes]

\* mermaidImageCache.get(cacheKey) is defined
CacheHas(cache, key) == \E e \in cache : e.key = key

\* mermaidImageCache.get(cacheKey)
CacheGet(cache, key) == (CHOOSE e \in cache : e.key = key).bytes

\* mermaidImageCache.set(cacheKey, rendered)
CacheSet(cache, key, bytes) ==
  {e \in cache : e.key # key} \cup {CacheEntry(key, bytes)}

\* The try block.
MermaidTry(cache, key, outcome) ==
  IF CacheHas(cache, key) THEN MermaidReturned(TRUE, cache)
  ELSE IF outcome = "initializeThrew" THEN MermaidThrew(cache)
  ELSE IF withTimeout(RenderSettles(outcome)) = "null"
  THEN MermaidReturned(FALSE, cache)
  ELSE IF outcome = "encodeThrew" THEN MermaidThrew(cache)
  ELSE IF ImagePromise(outcome)
  THEN MermaidReturned(TRUE, CacheSet(cache, key, key))
  ELSE MermaidReturned(FALSE, cache)

\* Variant: no catch block, the error reaches the caller.
MermaidRethrow(r) == r

\* catch (e) { console.error(...); return null; }
MermaidCatch(r) == IF r.threw THEN MermaidReturned(FALSE, r.cache) ELSE r

generateMermaidImage(cache, key, outcome) ==
  MermaidCatch(MermaidTry(cache, key, outcome))

\* The elements pushed for one block; image is generateMermaidImage's result
\* (TRUE: a buffer, FALSE: null), read for a mermaid block only.
BlockElements(b, image, sec, blk) ==
  IF b.type = CODE_BLOCK
  THEN IF b.language = MermaidLanguage
       THEN IF image
            THEN <<Element("Paragraph", "image", 0, b.content, sec, blk)>>
            ELSE <<Element("Paragraph", "error", 0, b.content, sec, blk)>>
       ELSE IF b.language = MathLanguage
       THEN <<Element("Paragraph", "math", 0, b.content, sec, blk)>>
       ELSE <<Element("Paragraph", "code", 0, b.content, sec, blk)>>
  ELSE IF b.type = TABLE /\ b.tableData.defined
  THEN <<Element("Table", "table", 0, << >>, sec, blk),
         Element("Paragraph", "spacer", 0, << >>, sec, blk)>>
  ELSE IF b.type = LIST_ITEM
  THEN <<Element("Paragraph", "bullet", 0, b.content, sec, blk)>>
  ELSE IF b.type = BLOCKQUOTE
  THEN <<Element("Paragraph", "quote", 0, b.content, sec, blk)>>
  ELSE IF b.type = HR
  THEN <<Element("Paragraph", "rule", 0, << >>, sec, blk)>>
  ELSE <<Element("Paragraph", "text", 0, b.content, sec, blk)>>

(***************************************************************************)
(* The AST-based parseMarkdownToSections.  The Markdown AST parser         *)
(* (unified with remark-parse, remark-gfm, remark-math) is a collaborator: *)
(* for a string it either throws or returns a tree, whose top-level nodes  *)
(* are the input of the loop.  A node's text stands for what               *)
(* getTextContent returns for it (node.value for code and math), rows for  *)
(* the cell texts of a table's rows, items for the texts of a list's       *)
(* items.                                                                  *)
(***************************************************************************)
\* The literals of the fallback section.
ErrorTitle == <<"ParseError">>

ErrorText == <<"ParseFailed">>

Node(type, text, depth, lang, rows, items) ==
  [type |-> type, text |-> text, depth |-> depth, lang |-> lang,
   rows |-> rows, items |-> items]

AstSection(title, level, blocks) ==
  [title |-> title, level |-> level, blocks |-> blocks]

ErrorSection ==
  AstSection(ErrorTitle, 1, <<Block(PARAGRAPH, ErrorText, Undefined, NoTable, 0)>>)

\* The state of one call; parserThrew is a history field.
AstCalled(arg, nodes) ==
  [status |-> "called", arg |-> arg, nodes |-> nodes, k |-> 0,
   sections |-> << >>, currentSection |-> AstSection(DefaultTitle, 1, << >>),
   result |-> << >>, parserThrew |-> FALSE]

AstIdle == [AstCalled("string", << >>) EXCEPT !.status = "idle"]

\* if (typeof markdown !== 'string') throw new Error(...)
AstTypeCheck(a) ==
  IF a.arg # "string" THEN [a EXCEPT !.status = "threw"] ELSE a

\* Variant: the error is thrown on to the caller.
AstRethrow(a) == [a EXCEPT !.status = "threw"]

\* catch (error) { ...; return [the error section] }
AstCatch(a) ==
  [a EXCEPT !.status = "returned", !.result = <<ErrorSection>>]

\* The call up to the loop: the type check, then processor.parse in the try.
AstEnter(a, parserThrows) ==
  LET checked == AstTypeCheck(a) IN
  IF checked.status = "threw" THEN checked
  ELSE IF parserThrows THEN AstCatch([checked EXCEPT !.parserThrew = TRUE])
  ELSE [checked EXCEPT !.status = "loop", !.k = 1]

\* Variant: the section is appended unconditionally.
flushSectionAlways(a) == [a EXCEPT !.sections = Append(@, a.currentSection)]

flushSection(a) ==
  IF Len(a.currentSection.blocks) > 0
       \/ (a.currentSection.title # DefaultTitle /\ a.currentSection.title # << >>)
  THEN [a EXCEPT !.sections = Append(@, a.currentSection)]
  ELSE a

AstPush(a, b) == [a EXCEPT !.currentSection.blocks = Append(@, b)]

\* case 'heading'
AstOnHeading(a, node) ==
  [flushSection(a) EXCEPT !.currentSection =
     AstSection(node.text, node.depth, << >>)]

\* case 'paragraph', 'code', 'math', 'table', 'blockquote', 'thematicBreak'
AstBlockOf(node) ==
  CASE node.type = "paragraph"  ->
         Block(PARAGRAPH, node.text, Undefined, NoTable, 0)
    [] node.type = "code"       ->
         Block(CODE_BLOCK, node.text,
               IF node.lang = Undefined THEN << >> ELSE node.lang, NoTable, 0)
    [] node.type = "math"       ->
         Block(CODE_BLOCK, node.text, MathLanguage, NoTable, 0)
    [] node.type = "table"      ->
         Block(TABLE, << >>, Undefined,
               [defined |-> TRUE, headers |-> node.rows[1],
                rows |-> Tail(node.rows)], 0)
    [] node.type = "blockquote" ->
         Block(BLOCKQUOTE, node.text, Undefined, NoTable, 0)
    [] OTHER                    ->
         Block(HR, << >>, Undefined, NoTable, 0)

\* case 'list': one LIST_ITEM per list item
RECURSIVE AstOnList(_, _)
AstOnList(a, items) ==
  IF items = << >> THEN a
  ELSE AstOnList(AstPush(a, Block(LIST_ITEM, Head(items), Undefined, NoTable, 0)),
                 Tail(items))

AstBlockTypes ==
  {"paragraph", "code", "math", "table", "blockquote", "thematicBreak"}

\* One iteration of the loop over the top-level nodes.
AstStep(a) ==
  LET node == a.nodes[a.k]
      done == IF node.type = "heading" THEN AstOnHeading(a, node)
              ELSE IF node.type \in AstBlockTypes THEN AstPush(a, AstBlockOf(node))
              ELSE IF node.type = "list" THEN AstOnList(a, node.items)
              ELSE a
  IN [done EXCEPT !.k = @ + 1]

\* flushSection(); return sections.length > 0 ? sections : [currentSection]
AstFinish(a) ==
  LET flushed == flushSection(a) IN
  [flushed EXCEPT !.status = "returned",
                  !.result = IF Len(flushed.sections) > 0
                             THEN flushed.sections
                             ELSE <<flushed.currentSection>>]

(***************************************************************************)
(* The top-level nodes the trees are built from.                           *)
(***************************************************************************)
NodeVocabulary ==
  {Node("heading", << >>, 1, Undefined, << >>, << >>),
   Node("heading", DefaultTitle, 2, Undefined, << >>, << >>),
   Node("heading", <<"T">>, 3, Undefined, << >>, << >>),
   Node("paragraph", <<"x">>, 0, Undefined, << >>, << >>),
   Node("code", <<"c">>, 0, Undefined, << >>, << >>),
   Node("math", <<"m">>, 0, Undefined, << >>, << >>),
   Node("table", << >>, 0, Undefined, << <<(<<"h">>)>>, <<(<<"1">>)>> >>, << >>),
   Node("blockquote", <<"q">>, 0, Undefined, << >>, << >>),
   Node("thematicBreak", << >>, 0, Undefined, << >>, << >>),
   Node("list", << >>, 0, Undefined, << >>, << <<"i">>, <<"j">> >>),
   Node("html", <<"h">>, 0, Undefined, << >>, << >>)}

Trees == UNION {[1..n -> NodeVocabulary] : n \in 0..MaxNodes}

(***************************************************************************)
(* LATEX_MAP: the named commands, each with the symbol it maps to (written *)
(* as its code point), and the single characters that map to themselves.   *)
(***************************************************************************)
LATEX_MAP_Named ==
  {
     <<<<"t", "h", "e", "t", "a">>, <<"U+03B8">>>>,
     <<<<"a", "l", "p", "h", "a">>, <<"U+03B1">>>>,
     <<<<"b", "e", "t", "a">>, <<"U+03B2">>>>,
     <<<<"g", "a", "m", "m", "a">>, <<"U+03B3">>>>,
     <<<<"d", "e", "l", "t", "a">>, <<"U+03B4">>>>,
     <<<<"e", "p", "s", "i", "l", "o", "n">>, <<"U+03B5">>>>,
     <<<<"l", "a", "m", "b", "d", "a">>, <<"U+03BB">>>>,
     <<<<"m", "u">>, <<"U+03BC">>>>,
     <<<<"p", "i">>, <<"U+03C0">>>>,
     <<<<"r", "h", "o">>, <<"U+03C1">>>>,
     <<<<"s", "i", "g", "m", "a">>, <<"U+03C3">>>>,
     <<<<"t", "a", "u">>, <<"U+03C4">>>>,
     <<<<"p", "h", "i">>, <<"U+03C6">>>>,
     <<<<"o", "m", "e", "g", "a">>, <<"U+03C9">>>>,
     <<<<"D", "e", "l", "t", "a">>, <<"U+0394">>>>,
     <<<<"S", "i", "g", "m", "a">>, <<"U+03A3">>>>,
     <<<<"O", "m", "e", "g", "a">>, <<"U+03A9">>>>,
     <<<<"i", "n", "f", "t", "y">>, <<"U+221E">>>>,
     <<<<"p", "m">>, <<"U+00B1">>>>,
     <<<<"t", "i", "m", "e", "s">>, <<"U+00D7">>>>,
     <<<<"d", "i", "v">>, <<"U+00F7">>>>,
     <<<<"n", "e", "q">>, <<"U+2260">>>>,
     <<<<"l", "e", "q">>, <<"U+2264">>>>,
     <<<<"g", "e", "q">>, <<"U+2265">>>>,
     <<<<"a", "p", "p", "r", "o", "x">>, <<"U+2248">>>>,
     <<<<"c", "d", "o", "t">>, <<"U+00B7">>>>,
     <<<<"r", "i", "g", "h", "t", "a", "r", "r", "o", "w">>, <<"U+2192">>>>,
     <<<<"l", "e", "f", "t", "a", "r", "r", "o", "w">>, <<"U+2190">>>>,
     <<<<"R", "i", "g", "h", "t", "a", "r", "r", "o", "w">>, <<"U+21D2">>>>,
     <<<<"p", "a", "r", "t", "i", "a", "l">>, <<"U+2202">>>>,
     <<<<"n", "a", "b", "l", "a">>, <<"U+2207">>>>,
     <<<<"d", "o", "t", "s">>, <<"U+2026">>>>,
     <<<<"c", "d", "o", "t", "s">>, <<"U+22EF">>>>,
     <<<<"i", "n">>, <<"U+2208">>>>,
     <<<<"n", "o", "t", "i", "n">>, <<"U+2209">>>>,
     <<<<"s", "u", "b", "s", "e", "t">>, <<"U+2282">>>>,
     <<<<"s", "u", "b", "s", "e", "t", "e", "q">>, <<"U+2286">>>>,
     <<<<"f", "o", "r", "a", "l", "l">>, <<"U+2200">>>>,
     <<<<"e", "x", "i", "s", "t", "s">>, <<"U+2203">>>>
  }

LATEX_MAP_Chars ==
  {" ", ",", ";", "|", "=", "+", "-", "<", ">", "(", ")", "[", "]", "{", "}", "/"}

\* key in LATEX_MAP
InLatexMap(key) ==
  \/ \E e \in LATEX_MAP_Named : e[1] = key
  \/ Len(key) = 1 /\ key[1] \in LATEX_MAP_Chars

\* LATEX_MAP[key], for a key of the map
LatexMapValue(key) ==
  IF Len(key) = 1 /\ key[1] \in LATEX_MAP_Chars THEN key
  ELSE (CHOOSE e \in LATEX_MAP_Named : e[1] = key)[2]

(***************************************************************************)
(* MathNode, the node of the LaTeX structure.  One record shape serves     *)
(* every variant: a field a variant does not have is empty, and an         *)
(* optional list (deg, sub, sup) is Absent when the source leaves it       *)
(* undefined.  The base of a limit node, a string, is held in val; base    *)
(* holds the base of a script node, a list of nodes.  style is "none" when *)
(* a text node has no style.                                               *)
(***************************************************************************)
Absent == [defined |-> FALSE, nodes |-> << >>]

Present(ns) == [defined |-> TRUE, nodes |-> ns]

BlankNode ==
  [type |-> "none", val |-> << >>, style |-> "none", children |-> << >>,
   num |-> << >>, den |-> << >>, deg |-> Absent, sub |-> Absent,
   sup |-> Absent, isIntegral |-> FALSE, base |-> << >>, accent |-> << >>]

TextNode(val, style) ==
  [BlankNode EXCEPT !.type = "text", !.val = val, !.style = style]

CmdNode(val) == [BlankNode EXCEPT !.type = "cmd", !.val = val]

GroupNode(children) == [BlankNode EXCEPT !.type = "group", !.children = children]

FractionNode(num, den) ==
  [BlankNode EXCEPT !.type = "fraction", !.num = num, !.den = den]

RadicalNode(deg, children) ==
  [BlankNode EXCEPT !.type = "radical", !.deg = deg, !.children = children]

SumNode(isIntegral, sub, sup) ==
  [BlankNode EXCEPT !.type = "sum", !.isIntegral = isIntegral,
                    !.sub = sub, !.sup = sup]

LimitNode(base, sub) ==
  [BlankNode EXCEPT !.type = "limit", !.val = base, !.sub = Present(sub)]

AccentNode(accent, children) ==
  [BlankNode EXCEPT !.type = "accent", !.accent = accent, !.children = children]

ScriptNode(base, sub, sup) ==
  [BlankNode EXCEPT !.type = "script", !.base = base, !.sub = sub, !.sup = sup]

(***************************************************************************)
(* parseLatexToStructure.  latex is the string, cursor the 0-based index   *)
(* of the next character.  h is a history record: calls holds an           *)
(* <<entry, exit>> pair of cursor values for every call of parseNext that  *)
(* has returned, trace the cursor values at the entries and exits of       *)
(* parseNext in program order.  Each routine returns the nodes it read     *)
(* with the cursor and the history it leaves.                              *)
(***************************************************************************)
Letters ==
  {"a", "b", "c", "d", "e", "f", "g", "h", "i", "j", "k", "l", "m", "n", "o",
   "p", "q", "r", "s", "t", "u", "v", "w", "x", "y", "z",
   "A", "B", "C", "D", "E", "F", "G", "H", "I", "J", "K", "L", "M", "N", "O",
   "P", "Q", "R", "S", "T", "U", "V", "W", "X", "Y", "Z"}

\* /[a-zA-Z]/.test(c)
IsLetter(c) == c \in Letters

\* /\s/.test(c)
IsWhitespace(c) == IsSpace(c) \/ c = "\n"

\* /[0-9.]/.test(c)
IsNumberChar(c) == IsDigit(c) \/ c = "."

\* latex[cursor]: undefined past the end of the string
CharAt(latex, cursor) ==
  IF cursor < Len(latex) THEN latex[cursor + 1] ELSE "undefined"

\* while (cursor < n && /[a-zA-Z]/.test(latex[cursor])) cursor++
RECURSIVE LettersEnd(_, _)
LettersEnd(latex, cursor) ==
  IF cursor < Len(latex) /\ IsLetter(latex[cursor + 1])
  THEN LettersEnd(latex, cursor + 1) ELSE cursor

\* while (cursor < n && /\s/.test(latex[cursor])) cursor++
RECURSIVE SkipWhitespace(_, _)
SkipWhitespace(latex, cursor) ==
  IF cursor < Len(latex) /\ IsWhitespace(latex[cursor + 1])
  THEN SkipWhitespace(latex, cursor + 1) ELSE cursor

\* while (cursor < n && /[0-9.]/.test(latex[cursor])) cursor++
RECURSIVE NumberEnd(_, _)
NumberEnd(latex, cursor) ==
  IF cursor < Len(latex) /\ IsNumberChar(latex[cursor + 1])
  THEN NumberEnd(latex, cursor + 1) ELSE cursor

\* latex.substring(from, to)
Substring(latex, from, to) == SubSeq(latex, from + 1, to)

NoHistory == [calls |-> {}, trace |-> << >>]

Read(nodes, cursor, h) == [nodes |-> nodes, cursor |-> cursor, h |-> h]

AccentCommands ==
  {<<"v", "e", "c">>, <<"b", "a", "r">>, <<"h", "a", "t">>, <<"d", "o", "t">>,
   <<"d", "d", "o", "t">>}

FunctionCommands ==
  {<<"l", "o", "g">>, <<"s", "i", "n">>, <<"c", "o", "s">>, <<"t", "a", "n">>,
   <<"l", "n">>, <<"m", "a", "x">>, <<"m", "i", "n">>, <<"e", "x", "p">>,
   <<"l", "i", "m">>, <<"d", "e", "t">>, <<"s", "u", "p">>, <<"i", "n", "f">>}

SpacingCommands == {<<",">>, <<";">>, <<" ">>, <<"q", "u", "a", "d">>}

\* content.map(c => c.type === 'text' ? c.val : '').join('')
RECURSIVE TextOf(_)
TextOf(nodes) ==
  IF nodes = << >> THEN << >>
  ELSE (IF Head(nodes).type = "text" THEN Head(nodes).val ELSE << >>)
         \o TextOf(Tail(nodes))

RECURSIVE parseNext(_, _, _)
RECURSIVE ReadUntil(_, _, _, _, _)
RECURSIVE parseCommand(_, _, _)

\* while (cursor < n && latex[cursor] !== close) nodes.push(...parseNext());
\* cursor++; return nodes
ReadUntil(latex, cursor, h, close, nodes) ==
  IF cursor < Len(latex) /\ latex[cursor + 1] # close
  THEN LET r == parseNext(latex, cursor, h) IN
       ReadUntil(latex, r.cursor, r.h, close, nodes \o r.nodes)
  ELSE Read(nodes, cursor + 1, h)

readGroup(latex, cursor, h) == ReadUntil(latex, cursor + 1, h, "}", << >>)

\* Variant: the optional group is read and the cursor put back where it was.
readOptionalGroupPeek(latex, cursor, h) ==
  LET tempCursor == SkipWhitespace(latex, cursor) IN
  IF CharAt(latex, tempCursor) = "["
  THEN LET r == ReadUntil(latex, tempCursor + 1, h, "]", << >>) IN
       [defined |-> TRUE, nodes |-> r.nodes, cursor |-> cursor, h |-> r.h]
  ELSE [defined |-> FALSE, nodes |-> << >>, cursor |-> cursor, h |-> h]

readOptionalGroup(latex, cursor, h) ==
  LET tempCursor == SkipWhitespace(latex, cursor) IN
  IF CharAt(latex, tempCursor) = "["
  THEN LET r == ReadUntil(latex, tempCursor + 1, h, "]", << >>) IN
       [defined |-> TRUE, nodes |-> r.nodes, cursor |-> r.cursor, h |-> r.h]
  ELSE [defined |-> FALSE, nodes |-> << >>, cursor |-> cursor, h |-> h]

\* while (whitespace) cursor++;
\* if (latex[cursor] === '{') x = readGroup(); else x = parseNext();
readOperand(latex, cursor, h) ==
  LET c == SkipWhitespace(latex, cursor) IN
  IF CharAt(latex, c) = "{" THEN readGroup(latex, c, h) ELSE parseNext(latex, c, h)

\* if (char === '\\') { ... }: cursor is the index of the backslash
parseCommand(latex, cursor, h) ==
  LET n      == Len(latex)
      c1     == LettersEnd(latex, cursor + 1)
      run    == Substring(latex, cursor + 1, c1)
      single == run = << >> /\ c1 < n
      cmd    == IF single THEN <<latex[c1 + 1]>> ELSE run
      c2     == IF single THEN c1 + 1 ELSE c1
  IN
  IF cmd \in {<<"l", "e", "f", "t">>, <<"r", "i", "g", "h", "t">>}
  THEN Read(<< >>, c2, h)
  ELSE IF cmd \in SpacingCommands
  THEN Read(<<TextNode(<<" ">>, "plain")>>, c2, h)
  ELSE IF cmd = <<"f", "r", "a", "c">>
  THEN LET num == readOperand(latex, c2, h)
           den == readOperand(latex, num.cursor, num.h)
       IN Read(<<FractionNode(num.nodes, den.nodes)>>, den.cursor, den.h)
  ELSE IF cmd = <<"s", "q", "r", "t">>
  THEN LET deg     == readOptionalGroup(latex, c2, h)
           content == readOperand(latex, deg.cursor, deg.h)
       IN Read(<<RadicalNode([defined |-> deg.defined, nodes |-> deg.nodes],
                             content.nodes)>>,
               content.cursor, content.h)
  ELSE IF cmd \in AccentCommands
  THEN LET content == readOperand(latex, c2, h) IN
       Read(<<AccentNode(cmd, content.nodes)>>, content.cursor, content.h)
  ELSE IF cmd \in {<<"s", "u", "m">>, <<"p", "r", "o", "d">>}
  THEN Read(<<SumNode(FALSE, Absent, Absent)>>, c2, h)
  ELSE IF cmd = <<"i", "n", "t">>
  THEN Read(<<SumNode(TRUE, Absent, Absent)>>, c2, h)
  ELSE IF cmd = <<"l", "i", "m">>
  THEN Read(<<LimitNode(<<"l", "i", "m">>, << >>)>>, c2, h)
  ELSE IF cmd \in FunctionCommands
  THEN Read(<<TextNode(cmd, "plain")>>, c2, h)
  ELSE IF cmd = <<"t", "e", "x", "t">>
  THEN LET c3      == SkipWhitespace(latex, c2)
           content == IF CharAt(latex, c3) = "{"
                      THEN readGroup(latex, c3, h)
                      ELSE Read(<< >>, c3, h)
       IN Read(<<TextNode(TextOf(content.nodes), "plain")>>,
               content.cursor, content.h)
  ELSE IF InLatexMap(cmd)
  THEN Read(<<TextNode(LatexMapValue(cmd), "plain")>>, c2, h)
  ELSE Read(<<CmdNode(cmd)>>, c2, h)

\* The body of parseNext for cursor < n, without the history.
parseNextBody(latex, cursor, h) ==
  LET char == latex[cursor + 1] IN
  IF char = "{"
  THEN LET g == readGroup(latex, cursor, h) IN
       Read(<<GroupNode(g.nodes)>>, g.cursor, g.h)
  ELSE IF char = "\\"
  THEN parseCommand(latex, cursor, h)
  ELSE IF char \in {"^", "_"}
  THEN Read(<<TextNode(<<char>>, "none")>>, cursor + 1, h)
  ELSE IF char \in LATEX_MAP_Chars
  THEN Read(<<TextNode(LatexMapValue(<<char>>), "plain")>>, cursor + 1, h)
  ELSE IF IsWhitespace(char)
  THEN Read(<< >>, cursor + 1, h)
  ELSE IF IsNumberChar(char)
  THEN LET c1 == NumberEnd(latex, cursor + 1) IN
       Read(<<TextNode(Substring(latex, cursor, c1), "plain")>>, c1, h)
  ELSE Read(<<TextNode(<<char>>, "italic")>>, cursor + 1, h)

parseNext(latex, cursor, h) ==
  LET entered == [h EXCEPT !.trace = Append(@, cursor)]
      r == IF cursor >= Len(latex)
           THEN Read(<< >>, cursor, entered)
           ELSE parseNextBody(latex, cursor, entered)
  IN [r EXCEPT !.h = [calls |-> r.h.calls \cup {<<cursor, r.cursor>>},
                      trace |-> Append(r.h.trace, r.cursor)]]

\* parseLatexToStructure(latex), run to its end: the nodes it returns.
RECURSIVE TokenizeFrom(_, _, _)
TokenizeFrom(latex, cursor, nodes) ==
  IF cursor < Len(latex)
  THEN LET r == parseNext(latex, cursor, NoHistory) IN
       TokenizeFrom(latex, r.cursor, nodes \o r.nodes)
  ELSE nodes

parseLatexToStructure(latex) == TokenizeFrom(latex, 0, << >>)

(***************************************************************************)
(* buildMathTree and flattenNode.  i is the 1-based index of the loop.     *)
(* BuildStep gives what one iteration pushes to result and the index of    *)
(* the next iteration.                                                     *)
(***************************************************************************)
\* next && next.type === 'text' && (next.val === '_' || next.val === '^')
IsMarker(nodes, k) ==
  /\ k <= Len(nodes)
  /\ nodes[k].type = "text"
  /\ nodes[k].val \in {<<"_">>, <<"^">>}

\* next && next.type === 'text' && next.val === '_'
IsSubMarker(nodes, k) ==
  /\ k <= Len(nodes)
  /\ nodes[k].type = "text"
  /\ nodes[k].val = <<"_">>

\* Variant: a second marker of either kind is taken.
AnyKind(secondIsSub, isSub) == TRUE

\* secondIsSub !== isSub
OppositeKind(secondIsSub, isSub) == secondIsSub # isSub

Pushed(nodes, next) == [push |-> nodes, next |-> next]

RECURSIVE buildMathTree(_)
RECURSIVE BuildFrom(_, _, _)

flattenNode(node) ==
  IF node.type = "group" THEN buildMathTree(node.children) ELSE <<node>>

\* Variant: a limit node is pushed as it is.
BuildLimitKeep(nodes, i) == Pushed(<<nodes[i]>>, i + 1)

\* if (current.type === 'limit') { ... }
BuildLimit(nodes, i) ==
  IF IsSubMarker(nodes, i + 1) /\ i + 2 <= Len(nodes)
  THEN Pushed(<<LimitNode(nodes[i].val, flattenNode(nodes[i + 2]))>>, i + 3)
  ELSE Pushed(<<TextNode(nodes[i].val, "plain")>>, i + 1)

\* if (next is a marker) { ... }
BuildScript(nodes, i) ==
  IF i + 2 > Len(nodes)
  THEN Pushed(<<nodes[i]>>, i + 1)
  ELSE
    LET current    == nodes[i]
        isSub      == nodes[i + 1].val = <<"_">>
        first      == Present(flattenNode(nodes[i + 2]))
        secondIsSub == nodes[i + 3].val = <<"_">>
        second     == /\ IsMarker(nodes, i + 3)
                      /\ OppositeKind(secondIsSub, isSub)
                      /\ i + 4 <= Len(nodes)
        sub0       == IF isSub THEN first ELSE Absent
        sup0       == IF ~isSub THEN first ELSE Absent
        sub        == IF second /\ secondIsSub
                      THEN Present(flattenNode(nodes[i + 4])) ELSE sub0
        sup        == IF second /\ ~secondIsSub
                      THEN Present(flattenNode(nodes[i + 4])) ELSE sup0
        advance    == IF second THEN 4 ELSE 2
    IN Pushed(IF current.type = "sum"
              THEN <<SumNode(current.isIntegral, sub, sup)>>
              ELSE <<ScriptNode(<<current>>, sub, sup)>>,
              i + advance + 1)

\* else { result.push(current); }
BuildPlain(nodes, i) == Pushed(<<nodes[i]>>, i + 1)

BuildKind(nodes, i) ==
  IF nodes[i].type = "limit" THEN "limit"
  ELSE IF IsMarker(nodes, i + 1) THEN "script"
  ELSE "plain"

BuildStep(nodes, i) ==
  CASE BuildKind(nodes, i) = "limit"  -> BuildLimit(nodes, i)
    [] BuildKind(nodes, i) = "script" -> BuildScript(nodes, i)
    [] OTHER                          -> BuildPlain(nodes, i)

BuildFrom(nodes, i, result) ==
  IF i <= Len(nodes)
  THEN LET s == BuildStep(nodes, i) IN BuildFrom(nodes, s.next, result \o s.push)
  ELSE result

buildMathTree(nodes) == BuildFrom(nodes, 1, << >>)

(***************************************************************************)
(* The primitives of the docx library renderToDocxMath builds, one record  *)
(* shape for every class; an optional operand the constructor is given as  *)
(* undefined is Absent.                                                    *)
(***************************************************************************)
BlankPrimitive ==
  [kind |-> "none", text |-> << >>, children |-> << >>, numerator |-> << >>,
   denominator |-> << >>, degree |-> Absent, limit |-> << >>,
   subScript |-> Absent, superScript |-> Absent]

MathRun(text) == [BlankPrimitive EXCEPT !.kind = "MathRun", !.text = text]

MathFraction(numerator, denominator) ==
  [BlankPrimitive EXCEPT !.kind = "MathFraction", !.numerator = numerator,
                         !.denominator = denominator]

MathRadical(children, degree) ==
  [BlankPrimitive EXCEPT !.kind = "MathRadical", !.children = children,
                         !.degree = degree]

MathLimitLower(children, limit) ==
  [BlankPrimitive EXCEPT !.kind = "MathLimitLower", !.children = children,
                         !.limit = limit]

MathIntegral(subScript, superScript, children) ==
  [BlankPrimitive EXCEPT !.kind = "MathIntegral", !.subScript = subScript,
                         !.superScript = superScript, !.children = children]

MathSum(subScript, superScript, children) ==
  [BlankPrimitive EXCEPT !.kind = "MathSum", !.subScript = subScript,
                         !.superScript = superScript, !.children = children]

MathSubSuperScript(children, subScript, superScript) ==
  [BlankPrimitive EXCEPT !.kind = "MathSubSuperScript", !.children = children,
                         !.subScript = subScript, !.superScript = superScript]

MathSubScript(children, subScript) ==
  [BlankPrimitive EXCEPT !.kind = "MathSubScript", !.children = children,
                         !.subScript = subScript]

MathSuperScript(children, superScript) ==
  [BlankPrimitive EXCEPT !.kind = "MathSuperScript", !.children = children,
                         !.superScript = superScript]

\* Variant: the list is returned as it is.
ensureChildrenOff(children) == children

ensureChildren(children) ==
  IF children = << >> THEN <<MathRun(<<" ">>)>> ELSE children

RECURSIVE renderToDocxMath(_)

\* node.x ? ensureChildren(renderToDocxMath(node.x)) : undefined
RenderOptional(x) ==
  IF x.defined THEN Present(ensureChildren(renderToDocxMath(x.nodes))) ELSE Absent

\* The body of the loop of renderToDocxMath: what is pushed for one node.
RenderNode(node) ==
  IF node.type = "text" THEN <<MathRun(node.val)>>
  ELSE IF node.type = "cmd"
  THEN <<MathRun(IF InLatexMap(node.val) THEN LatexMapValue(node.val)
                 ELSE node.val)>>
  ELSE IF node.type = "fraction"
  THEN <<MathFraction(ensureChildren(renderToDocxMath(node.num)),
                      ensureChildren(renderToDocxMath(node.den)))>>
  ELSE IF node.type = "radical"
  THEN <<MathRadical(ensureChildren(renderToDocxMath(node.children)),
                     RenderOptional(node.deg))>>
  ELSE IF node.type = "accent" THEN renderToDocxMath(node.children)
  ELSE IF node.type = "limit"
  THEN <<MathLimitLower(<<MathRun(node.val)>>,
                        ensureChildren(renderToDocxMath(node.sub.nodes)))>>
  ELSE IF node.type = "sum"
  THEN IF node.isIntegral
       THEN <<MathIntegral(RenderOptional(node.sub), RenderOptional(node.sup),
                           <<MathRun(<< >>)>>)>>
       ELSE <<MathSum(RenderOptional(node.sub), RenderOptional(node.sup),
                      <<MathRun(<< >>)>>)>>
  ELSE IF node.type = "script"
  THEN LET base == ensureChildren(renderToDocxMath(node.base))
           sub  == RenderOptional(node.sub)
           sup  == RenderOptional(node.sup)
       IN IF sub.defined /\ sup.defined
          THEN <<MathSubSuperScript(base, sub, sup)>>
          ELSE IF sub.defined THEN <<MathSubScript(base, sub)>>
          ELSE IF sup.defined THEN <<MathSuperScript(base, sup)>>
          ELSE base
  ELSE IF node.type = "group" THEN renderToDocxMath(node.children)
  ELSE << >>

renderToDocxMath(nodes) ==
  IF nodes = << >> THEN << >>
  ELSE RenderNode(Head(nodes)) \o renderToDocxMath(Tail(nodes))

\* Variant: the rendered list is returned whether it is empty or not.
ConvertResultUnchecked(docxNodes, latex) == docxNodes

\* if (docxNodes.length === 0) return [new MathRun(latex)]; return docxNodes;
ConvertResult(docxNodes, latex) ==
  IF docxNodes = << >> THEN <<MathRun(latex)>> ELSE docxNodes

\* catch (e) { return [new MathRun(latex)]; }
ConvertCatch(latex) == <<MathRun(latex)>>

\* convertLatexToDocxMath(latex) when no stage throws
convertLatexToDocxMath(latex) ==
  ConvertResult(renderToDocxMath(buildMathTree(parseLatexToStructure(latex))),
                latex)

(***************************************************************************)
(* The lines the inputs are built from.                                    *)
(***************************************************************************)
BlankLine == << >>
MathFenceLine == <<" ", "$", "$">>
FenceLine == Fence3
MermaidFenceLine == Fence3 \o <<" ">> \o MermaidLanguage
HeadingLine == <<"#", " ", "T">>
DeepHeadingLine == <<"#", "#", "#", "#", "#", "#", "#", "|", "-">>
PipeLine == <<"a", "|", "b">>
SeparatorLine == <<"-", "|", "-">>
PipeDashLine == <<"c", "-", "|", "d">>
QuoteLine == <<">", " ", "q">>
ItemLine == <<"-", " ", "i">>
RuleLine == <<"-", "-", "-">>
TextLine == <<" ", "x", " ">>

LineVocabulary ==
  {BlankLine, MathFenceLine, FenceLine, MermaidFenceLine, HeadingLine,
   DeepHeadingLine, PipeLine, SeparatorLine, PipeDashLine, QuoteLine, ItemLine,
   RuleLine, TextLine}

\* markdown.split('\n') is never empty.
Inputs == UNION {[1..n -> LineVocabulary] : n \in 1..MaxLines}

\* A closed mermaid block followed by one more line.
DiagramInputs ==
  {<<MermaidFenceLine, TextLine, FenceLine, l>> : l \in LineVocabulary}

ExportInputs ==
  UNION {[1..n -> LineVocabulary] : n \in 1..MaxExportLines} \cup DiagramInputs

(***************************************************************************)
(* The pieces the LaTeX inputs are built from, and the nodes the inputs of *)
(* buildMathTree are built from.                                           *)
(***************************************************************************)
LatexPieces ==
  {<<"{">>, <<"}">>, <<"[">>, <<"]">>,
   <<"\\", "f", "r", "a", "c">>, <<"\\", "s", "q", "r", "t">>,
   <<"\\", "s", "u", "m">>, <<"\\", "i", "n", "t">>, <<"\\", "l", "i", "m">>,
   <<"\\", "v", "e", "c">>, <<"\\">>,
   <<"x">>, <<"_">>, <<"^">>, <<" ">>, <<"_", "x">>, <<"^", "1">>}

RECURSIVE Concat(_)
Concat(pieces) ==
  IF pieces = << >> THEN << >> ELSE Head(pieces) \o Concat(Tail(pieces))

LatexInputs ==
  {Concat(s) : s \in UNION {[1..n -> LatexPieces] : n \in 0..MaxPieces}}

(***************************************************************************)
(* The export of math with options.mathMode.  A math occurrence is an      *)
(* inline `$...$` segment of a paragraph (parseParagraphContent), a math   *)
(* code block or a `$$...$$` paragraph (exportToDocx); latex is the source *)
(* after the delimiters are stripped.  The rasterizing service is a        *)
(* collaborator: a behaviour names what it does with one request.          *)
(***************************************************************************)
MathSites == {"inline", "codeBlock", "paragraph"}

\* Sources that convertLatexToDocxMath lowers without LATEX_MAP, the only
\* part in which the versions of the function differ.
MathSources == {<<"x">>, <<"\\", "f", "r", "a", "c">>}

MathItems == [site : MathSites, latex : MathSources]

MathItemLists == UNION {[1..n -> MathItems] : n \in 0..MaxMathItems}

MathModes == {"native", "image"}

\* "ok": a 2xx response whose body arrives; "notOk": another status;
\* "networkError": fetch rejects; "silent": no response ever; "bodyError":
\* reading the body rejects; "bodyStalls": the body never ends.
ServiceBehaviours ==
  {"ok", "notOk", "networkError", "silent", "bodyError", "bodyStalls"}

\* new DocxMath({ children: mathChildren }), in a Paragraph for a block
MathElement(site, children) ==
  [site |-> site, kind |-> "math", children |-> children]

\* new ImageRun({ data, transformation, type: "png" })
ImageElement(site) == [site |-> site, kind |-> "image", children |-> << >>]

\* Variant: a text label in place of the math element.
FallbackLabel(site, latex) ==
  [site |-> site, kind |-> "label", children |-> << >>]

\* else { const mathChildren = convertLatexToDocxMath(latex); push(...) }
FallbackElement(site, latex) ==
  MathElement(site, convertLatexToDocxMath(latex))

\* The run before its first occurrence.
MathExportCalled(mathMode, items) ==
  [pc |-> "loop", mathMode |-> mathMode, items |-> items, i |-> 1,
   service |-> "none", imageBuffer |-> "none", out |-> << >>,
   results |-> << >>]

\* generateMathImage returns imageBuffer ("buffer" or "null") to the driver.
MathImageReturned(mx, imageBuffer) ==
  [mx EXCEPT !.pc = "returned", !.imageBuffer = imageBuffer]

\* The driver pushes an element and goes on to the next occurrence; results
\* is a history of what the rasterizer returned for each occurrence.
MathPushed(mx, element) ==
  [mx EXCEPT !.pc = "loop", !.i = @ + 1, !.service = "none",
             !.imageBuffer = "none", !.out = Append(@, element),
             !.results = Append(@, mx.imageBuffer)]

MathNodeVocabulary ==
  {TextNode(<<"x">>, "italic"),
   TextNode(<<"_">>, "none"),
   TextNode(<<"^">>, "none"),
   SumNode(FALSE, Absent, Absent),
   SumNode(TRUE, Absent, Absent),
   LimitNode(<<"l", "i", "m">>, << >>),
   GroupNode(<<TextNode(<<"y">>, "italic"), TextNode(<<"^">>, "none"),
               TextNode(<<"2">>, "plain")>>),
   FractionNode(<< >>, << >>)}

MathNodeLists == UNION {[1..n -> MathNodeVocabulary] : n \in 0..MaxTreeNodes}

(***************************************************************************)
(* State.                                                                  *)
(***************************************************************************)
VARIABLES
  lines,        \* markdown.split('\n')
  p,            \* the locals of the line parser
  pc,           \* the parser: "parse", "parsed"; exportToDocx: "start",
                \* "export", "done"
  sec,          \* exportToDocx: index of the section being emitted
  blk,          \* exportToDocx: index of the next block, 0 before the heading
  docChildren,  \* exportToDocx: the elements emitted so far
  ast,          \* the AST-based parser: the state of one call
  tex,          \* convertLatexToDocxMath: the state of one call
  mermaidImageCache,  \* the entries of the cache
  renderCalls,  \* exportToDocx: the calls of generateMermaidImage so far
  mathExport,   \* the export of math in image mode: the state of one run
  conv,         \* latexToComponents / the inline splicer: the state of one call
  call,         \* generateMermaidImage: the calls in flight and their timers
  ui            \* the React components: their state, effects and timers

vars == <<lines, p, pc, sec, blk, docChildren, ast, tex, mermaidImageCache,
          renderCalls, mathExport, conv, call, ui>>

mathVars == <<tex>>

diagramVars == <<mermaidImageCache, renderCalls>>

restVars == <<conv, call, ui>>

asyncVars == <<mermaidImageCache, renderCalls, mathExport, conv, call, ui>>

\* Not running.
Idle == [pc |-> "idle"]

(***************************************************************************)
(* convertLatexToDocxMath: the loop of parseLatexToStructure, the loop of  *)
(* buildMathTree, the loop of renderToDocxMath, and the return.            *)
(***************************************************************************)
TexIdle ==
  [latex |-> << >>, pc |-> "idle", cursor |-> 0, rawNodes |-> << >>,
   h |-> NoHistory, i |-> 1, structuredNodes |-> << >>, j |-> 1,
   docxNodes |-> << >>, result |-> << >>, caught |-> FALSE]

TexCalled(latex) == [TexIdle EXCEPT !.latex = latex, !.pc = "tokenize"]

\* buildMathTree called on a list of nodes
TreeCalled(nodes) == [TexIdle EXCEPT !.rawNodes = nodes, !.pc = "build"]

\* No export of math in image mode is running.
MathExportIdle == [pc |-> "idle"]

exportVars == <<sec, blk, docChildren>>

Init ==
  /\ lines \in Inputs
  /\ p = InitParser
  /\ pc = "parse"
  /\ sec = 0
  /\ blk = 0
  /\ docChildren = << >>
  /\ ast = AstIdle
  /\ tex = TexIdle
  /\ mermaidImageCache = {}
  /\ renderCalls = << >>
  /\ mathExport = MathExportIdle
  /\ conv = Idle
  /\ call = Idle
  /\ ui = Idle

(***************************************************************************)
(* The line parser, one action per branch of the loop body.                *)
(***************************************************************************)
AtLine(kind) ==
  /\ pc = "parse"
  /\ p.i <= Len(lines)
  /\ LineKind(p, lines) = kind

MathFence ==
  /\ AtLine("mathFence")
  /\ p' = OnMathFence(p, lines)
  /\ UNCHANGED <<lines, pc, exportVars, ast, mathVars, asyncVars>>

MathContent ==
  /\ AtLine("mathContent")
  /\ p' = OnMathContent(p, lines)
  /\ UNCHANGED <<lines, pc, exportVars, ast, mathVars, asyncVars>>

Fence ==
  /\ AtLine("fence")
  /\ p' = OnFence(p, lines)
  /\ UNCHANGED <<lines, pc, exportVars, ast, mathVars, asyncVars>>

CodeContent ==
  /\ AtLine("codeContent")
  /\ p' = OnCodeContent(p, lines)
  /\ UNCHANGED <<lines, pc, exportVars, ast, mathVars, asyncVars>>

Heading ==
  /\ AtLine("heading")
  /\ p' = OnHeading(p, lines)
  /\ UNCHANGED <<lines, pc, exportVars, ast, mathVars, asyncVars>>

PipeParagraph ==
  /\ AtLine("pipe")
  /\ ~p.inTable /\ ~NextIsSeparator(p, lines)
  /\ p' = OnPipe(p, lines)
  /\ UNCHANGED <<lines, pc, exportVars, ast, mathVars, asyncVars>>

TableRow ==
  /\ AtLine("pipe")
  /\ p.inTable \/ NextIsSeparator(p, lines)
  /\ p' = OnPipe(p, lines)
  /\ UNCHANGED <<lines, pc, exportVars, ast, mathVars, asyncVars>>

Blockquote ==
  /\ AtLine("blockquote")
  /\ p' = OnBlockquote(p, lines)
  /\ UNCHANGED <<lines, pc, exportVars, ast, mathVars, asyncVars>>

ListItem ==
  /\ AtLine("listItem")
  /\ p' = OnListItem(p, lines)
  /\ UNCHANGED <<lines, pc, exportVars, ast, mathVars, asyncVars>>

Rule ==
  /\ AtLine("rule")
  /\ p' = OnRule(p, lines)
  /\ UNCHANGED <<lines, pc, exportVars, ast, mathVars, asyncVars>>

Paragraph ==
  /\ AtLine("paragraph")
  /\ p' = OnParagraph(p, lines)
  /\ UNCHANGED <<lines, pc, exportVars, ast, mathVars, asyncVars>>

Blank ==
  /\ AtLine("blank")
  /\ p' = OnBlank(p, lines)
  /\ UNCHANGED <<lines, pc, exportVars, ast, mathVars, asyncVars>>

EndOfInput ==
  /\ pc = "parse"
  /\ p.i > Len(lines)
  /\ p' = OnEnd(p)
  /\ pc' = "parsed"
  /\ UNCHANGED <<lines, exportVars, ast, mathVars, asyncVars>>

(***************************************************************************)
(* exportToDocx: the title, then per section its heading and its blocks.   *)
(***************************************************************************)
sections == p.sections

\* mermaidImageCache is a module-level map, so an export starts with what
\* earlier exports have left in it: nothing, or the image of a diagram.
CachesAtStart ==
  {{}, {CacheEntry(cacheKey(chartTheme, TextLine),
                   cacheKey(chartTheme, TextLine))}}

InitExport ==
  /\ lines \in ExportInputs
  /\ p = InitParser
  /\ pc = "start"
  /\ sec = 0
  /\ blk = 0
  /\ docChildren = << >>
  /\ ast = AstIdle
  /\ tex = TexIdle
  /\ mermaidImageCache \in CachesAtStart
  /\ renderCalls = << >>
  /\ mathExport = MathExportIdle
  /\ conv = Idle
  /\ call = Idle
  /\ ui = Idle

\* const sections = parseMarkdownToSections(markdown), then the title
ExportTitle ==
  /\ pc = "start"
  /\ p' = RunParser(InitParser, lines)
  /\ pc' = "export"
  /\ docChildren' = <<TitleElement>>
  /\ sec' = 1
  /\ blk' = 0
  /\ UNCHANGED <<lines, ast, mathVars, asyncVars>>

ExportHeading ==
  /\ pc = "export"
  /\ sec <= Len(sections)
  /\ blk = 0
  /\ docChildren' = Append(docChildren,
       Element("Paragraph", "heading", getHeadingLevel(sections[sec].level),
               sections[sec].title, sec, 0))
  /\ IF Len(sections[sec].blocks) = 0
     THEN sec' = sec + 1 /\ blk' = 0
     ELSE sec' = sec /\ blk' = 1
  /\ UNCHANGED <<lines, p, pc, ast, mathVars, asyncVars>>

\* One iteration of the loop over section.blocks.  For a mermaid block the
\* image is what generateMermaidImage returns; were the call to reject, the
\* export would reject with it.
ExportBlock(isMermaid) ==
  /\ pc = "export"
  /\ sec <= Len(sections)
  /\ blk \in 1..Len(sections[sec].blocks)
  /\ LET b == sections[sec].blocks[blk]
         key == cacheKey(chartTheme, b.content)
     IN
     /\ isMermaid = (b.type = CODE_BLOCK /\ b.language = MermaidLanguage)
     /\ IF isMermaid
        THEN \E outcome \in (IF CacheHas(mermaidImageCache, key)
                             THEN {"cached"} ELSE MermaidOutcomes) :
               LET r == generateMermaidImage(mermaidImageCache, key, outcome) IN
               /\ mermaidImageCache' = r.cache
               /\ renderCalls' = Append(renderCalls,
                    [sec |-> sec, blk |-> blk, outcome |-> outcome,
                     image |-> r.image, threw |-> r.threw])
               /\ IF r.threw
                  THEN /\ pc' = "failed"
                       /\ UNCHANGED <<sec, blk, docChildren>>
                  ELSE /\ pc' = pc
                       /\ docChildren' =
                            docChildren \o BlockElements(b, r.image, sec, blk)
                       /\ IF blk = Len(sections[sec].blocks)
                          THEN sec' = sec + 1 /\ blk' = 0
                          ELSE sec' = sec /\ blk' = blk + 1
        ELSE /\ docChildren' = docChildren \o BlockElements(b, FALSE, sec, blk)
             /\ IF blk = Len(sections[sec].blocks)
                THEN sec' = sec + 1 /\ blk' = 0
                ELSE sec' = sec /\ blk' = blk + 1
             /\ UNCHANGED <<pc, diagramVars>>
  /\ UNCHANGED <<lines, p, ast, mathVars, mathExport, restVars>>

ExportDiagram == ExportBlock(TRUE)

ExportContent == ExportBlock(FALSE)

\* Packer.toBlob and saveAs
ExportSave ==
  /\ pc = "export"
  /\ sec > Len(sections)
  /\ pc' = "done"
  /\ UNCHANGED <<lines, p, exportVars, ast, mathVars, asyncVars>>

(***************************************************************************)
(* The AST-based parser: the call, the loop over the nodes, the return.    *)
(***************************************************************************)
InitAst ==
  /\ lines = <<BlankLine>>
  /\ p = InitParser
  /\ pc = "idle"
  /\ sec = 0
  /\ blk = 0
  /\ docChildren = << >>
  /\ ast \in {AstCalled("string", t) : t \in Trees} \cup {AstCalled("number", << >>)}
  /\ tex = TexIdle
  /\ mermaidImageCache = {}
  /\ renderCalls = << >>
  /\ mathExport = MathExportIdle
  /\ conv = Idle
  /\ call = Idle
  /\ ui = Idle

AstCall ==
  /\ ast.status = "called"
  /\ \E parserThrows \in BOOLEAN : ast' = AstEnter(ast, parserThrows)
  /\ UNCHANGED <<lines, p, pc, exportVars, mathVars, asyncVars>>

AstNode ==
  /\ ast.status = "loop"
  /\ ast.k <= Len(ast.nodes)
  /\ ast' = AstStep(ast)
  /\ UNCHANGED <<lines, p, pc, exportVars, mathVars, asyncVars>>

AstReturn ==
  /\ ast.status = "loop"
  /\ ast.k > Len(ast.nodes)
  /\ ast' = AstFinish(ast)
  /\ UNCHANGED <<lines, p, pc, exportVars, mathVars, asyncVars>>

InitLatex ==
  /\ lines = <<BlankLine>>
  /\ p = InitParser
  /\ pc = "idle"
  /\ sec = 0
  /\ blk = 0
  /\ docChildren = << >>
  /\ ast = AstIdle
  /\ tex \in {TexCalled(latex) : latex \in LatexInputs}
  /\ mermaidImageCache = {}
  /\ renderCalls = << >>
  /\ mathExport = MathExportIdle
  /\ conv = Idle
  /\ call = Idle
  /\ ui = Idle

InitTree ==
  /\ lines = <<BlankLine>>
  /\ p = InitParser
  /\ pc = "idle"
  /\ sec = 0
  /\ blk = 0
  /\ docChildren = << >>
  /\ ast = AstIdle
  /\ tex \in {TreeCalled(nodes) : nodes \in MathNodeLists}
  /\ mermaidImageCache = {}
  /\ renderCalls = << >>
  /\ mathExport = MathExportIdle
  /\ conv = Idle
  /\ call = Idle
  /\ ui = Idle

\* while (cursor < n) nodes.push(...parseNext())
TexParseNext ==
  /\ tex.pc = "tokenize"
  /\ tex.cursor < Len(tex.latex)
  /\ LET r == parseNext(tex.latex, tex.cursor, tex.h) IN
     tex' = [tex EXCEPT !.rawNodes = @ \o r.nodes, !.cursor = r.cursor,
                        !.h = r.h]
  /\ UNCHANGED <<lines, p, pc, exportVars, ast, asyncVars>>

\* return nodes; const structuredNodes = buildMathTree(rawNodes)
TexTokenized ==
  /\ tex.pc = "tokenize"
  /\ tex.cursor >= Len(tex.latex)
  /\ tex' = [tex EXCEPT !.pc = "build", !.i = 1]
  /\ UNCHANGED <<lines, p, pc, exportVars, ast, asyncVars>>

AtNode(kind) ==
  /\ tex.pc = "build"
  /\ tex.i <= Len(tex.rawNodes)
  /\ BuildKind(tex.rawNodes, tex.i) = kind

TexBuildLimit ==
  /\ AtNode("limit")
  /\ LET s == BuildLimit(tex.rawNodes, tex.i) IN
     tex' = [tex EXCEPT !.structuredNodes = @ \o s.push, !.i = s.next]
  /\ UNCHANGED <<lines, p, pc, exportVars, ast, asyncVars>>

TexBuildScript ==
  /\ AtNode("script")
  /\ LET s == BuildScript(tex.rawNodes, tex.i) IN
     tex' = [tex EXCEPT !.structuredNodes = @ \o s.push, !.i = s.next]
  /\ UNCHANGED <<lines, p, pc, exportVars, ast, asyncVars>>

TexBuildPlain ==
  /\ AtNode("plain")
  /\ LET s == BuildPlain(tex.rawNodes, tex.i) IN
     tex' = [tex EXCEPT !.structuredNodes = @ \o s.push, !.i = s.next]
  /\ UNCHANGED <<lines, p, pc, exportVars, ast, asyncVars>>

\* return result; const docxNodes = renderToDocxMath(structuredNodes)
TexBuilt ==
  /\ tex.pc = "build"
  /\ tex.i > Len(tex.rawNodes)
  /\ tex' = [tex EXCEPT !.pc = "render", !.j = 1]
  /\ UNCHANGED <<lines, p, pc, exportVars, ast, asyncVars>>

\* for (const node of nodes) { ... }
TexRenderNode ==
  /\ tex.pc = "render"
  /\ tex.j <= Len(tex.structuredNodes)
  /\ tex' = [tex EXCEPT !.docxNodes = @ \o RenderNode(tex.structuredNodes[tex.j]),
                        !.j = @ + 1]
  /\ UNCHANGED <<lines, p, pc, exportVars, ast, asyncVars>>

\* a constructor of the docx library throws: catch (e) { ... }
TexRenderThrows ==
  /\ tex.pc = "render"
  /\ tex.j <= Len(tex.structuredNodes)
  /\ tex' = [tex EXCEPT !.pc = "done", !.caught = TRUE,
                        !.result = ConvertCatch(tex.latex)]
  /\ UNCHANGED <<lines, p, pc, exportVars, ast, asyncVars>>

\* if (docxNodes.length === 0) return [new MathRun(latex)]; return docxNodes
TexReturn ==
  /\ tex.pc = "render"
  /\ tex.j > Len(tex.structuredNodes)
  /\ tex' = [tex EXCEPT !.pc = "done",
                        !.result = ConvertResult(tex.docxNodes, tex.latex)]
  /\ UNCHANGED <<lines, p, pc, exportVars, ast, asyncVars>>

(***************************************************************************)
(* Spec: parseMarkdownToSections on every input of at most MaxLines lines. *)
(* SpecExport: exportToDocx on every input of at most MaxExportLines.      *)
(***************************************************************************)
Next ==
  \/ MathFence \/ MathContent \/ Fence \/ CodeContent \/ Heading
  \/ PipeParagraph \/ TableRow \/ Blockquote \/ ListItem \/ Rule
  \/ Paragraph \/ Blank \/ EndOfInput

Spec == Init /\ [][Next]_vars

NextExport ==
  \/ ExportTitle \/ ExportHeading \/ ExportDiagram \/ ExportContent
  \/ ExportSave

SpecExport == InitExport /\ [][NextExport]_vars

NextAst == AstCall \/ AstNode \/ AstReturn

SpecAst == InitAst /\ [][NextAst]_vars

(***************************************************************************)
(* SpecLatex: convertLatexToDocxMath on every string of at most MaxPieces  *)
(* pieces.  SpecTree: buildMathTree on every list of at most MaxTreeNodes   *)
(* nodes.                                                                  *)
(***************************************************************************)
NextLatex ==
  \/ TexParseNext \/ TexTokenized
  \/ TexBuildLimit \/ TexBuildScript \/ TexBuildPlain \/ TexBuilt
  \/ TexRenderNode \/ TexRenderThrows \/ TexReturn

SpecLatex == InitLatex /\ [][NextLatex]_vars

NextTree == TexBuildLimit \/ TexBuildScript \/ TexBuildPlain \/ TexBuilt

SpecTree == InitTree /\ [][NextTree]_vars

(***************************************************************************)
(* SpecMathImage: the export of at most MaxMathItems math occurrences in   *)
(* either mode, with generateMathImage followed through its awaits.        *)
(* SpecMathImageFair: the same where a settled await resumes.               *)
(***************************************************************************)
InitMathImage ==
  /\ lines = <<BlankLine>>
  /\ p = InitParser
  /\ pc = "idle"
  /\ sec = 0
  /\ blk = 0
  /\ docChildren = << >>
  /\ ast = AstIdle
  /\ tex = TexIdle
  /\ mermaidImageCache = {}
  /\ renderCalls = << >>
  /\ mathExport \in {MathExportCalled(m, items) :
                       m \in MathModes, items \in MathItemLists}
  /\ conv = Idle
  /\ call = Idle
  /\ ui = Idle

MathItem == mathExport.items[mathExport.i]

\* options.mathMode !== 'image': the native math element
MathNative ==
  /\ mathExport.pc = "loop"
  /\ mathExport.i <= Len(mathExport.items)
  /\ mathExport.mathMode = "native"
  /\ mathExport' = MathPushed(mathExport,
                     MathElement(MathItem.site,
                                 convertLatexToDocxMath(MathItem.latex)))
  /\ UNCHANGED <<lines, p, pc, exportVars, ast, mathVars, diagramVars, restVars>>

\* await generateMathImage(latex): const response = await fetch(url)
MathImageCall ==
  /\ mathExport.pc = "loop"
  /\ mathExport.i <= Len(mathExport.items)
  /\ mathExport.mathMode = "image"
  /\ \E s \in ServiceBehaviours :
       mathExport' = [mathExport EXCEPT !.pc = "fetch", !.service = s]
  /\ UNCHANGED <<lines, p, pc, exportVars, ast, mathVars, diagramVars, restVars>>

\* fetch settles: a rejection goes to the catch block, a response that is
\* not ok returns null, an ok response is read with response.blob().
FetchSettles ==
  /\ mathExport.pc = "fetch"
  /\ mathExport.service # "silent"
  /\ mathExport' =
       IF mathExport.service \in {"networkError", "notOk"}
       THEN MathImageReturned(mathExport, "null")
       ELSE [mathExport EXCEPT !.pc = "blob"]
  /\ UNCHANGED <<lines, p, pc, exportVars, ast, mathVars, diagramVars, restVars>>

\* response.blob() settles: a rejection goes to the catch block.
BlobSettles ==
  /\ mathExport.pc = "blob"
  /\ mathExport.service # "bodyStalls"
  /\ mathExport' =
       IF mathExport.service = "bodyError"
       THEN MathImageReturned(mathExport, "null")
       ELSE [mathExport EXCEPT !.pc = "arrayBuffer"]
  /\ UNCHANGED <<lines, p, pc, exportVars, ast, mathVars, diagramVars, restVars>>

\* return await blob.arrayBuffer()
ArrayBufferSettles ==
  /\ mathExport.pc = "arrayBuffer"
  /\ mathExport' = MathImageReturned(mathExport, "buffer")
  /\ UNCHANGED <<lines, p, pc, exportVars, ast, mathVars, diagramVars, restVars>>

\* if (imageBuffer): getImageDimensions, then the image is pushed
MathImageEmbed ==
  /\ mathExport.pc = "returned"
  /\ mathExport.imageBuffer = "buffer"
  /\ mathExport' = MathPushed(mathExport, ImageElement(MathItem.site))
  /\ UNCHANGED <<lines, p, pc, exportVars, ast, mathVars, diagramVars, restVars>>

\* else: the native math element
MathImageFallback ==
  /\ mathExport.pc = "returned"
  /\ mathExport.imageBuffer = "null"
  /\ mathExport' = MathPushed(mathExport,
                     FallbackElement(MathItem.site, MathItem.latex))
  /\ UNCHANGED <<lines, p, pc, exportVars, ast, mathVars, diagramVars, restVars>>

MathExportDone ==
  /\ mathExport.pc = "loop"
  /\ mathExport.i > Len(mathExport.items)
  /\ mathExport' = [mathExport EXCEPT !.pc = "done"]
  /\ UNCHANGED <<lines, p, pc, exportVars, ast, mathVars, diagramVars, restVars>>

NextMathImage ==
  \/ MathNative \/ MathImageCall \/ FetchSettles \/ BlobSettles
  \/ ArrayBufferSettles \/ MathImageEmbed \/ MathImageFallback
  \/ MathExportDone

SpecMathImage == InitMathImage /\ [][NextMathImage]_vars

\* A settled await of generateMathImage resumes.
SpecMathImageFair ==
  /\ SpecMathImage
  /\ WF_vars(FetchSettles)
  /\ WF_vars(BlobSettles)
  /\ WF_vars(ArrayBufferSettles)

(***************************************************************************)
(* The inline splicer: the part of parseParagraphContent that splits a     *)
(* text without math on **bold** and then on *italic*.  SpecSplice: the    *)
(* splicer on every text of at most MaxTextLen characters out of * and a.  *)
(***************************************************************************)
SpliceTexts == UNION {[1..n -> {"*", "a"}] : n \in 0..MaxTextLen}

\* The first index at or after j that holds a *, Len(s) + 1 if none does.
RECURSIVE StarFrom(_, _)
StarFrom(s, j) ==
  IF j > Len(s) \/ s[j] = "*" THEN j ELSE StarFrom(s, j + 1)

\* s has n stars from index i on
StarsAt(s, i, n) == i + n - 1 <= Len(s) /\ \A k \in i..(i + n - 1) : s[k] = "*"

\* /\*{n}[^*]+\*{n}/ matched at index i: the index after the match, else 0
EmphasisEnd(s, i, n) ==
  LET j == StarFrom(s, i + n) IN
  IF StarsAt(s, i, n) /\ j > i + n /\ StarsAt(s, j, n) THEN j + n ELSE 0

\* The start of the leftmost match at or after from, 0 if there is none.
RECURSIVE FirstEmphasis(_, _, _)
FirstEmphasis(s, from, n) ==
  IF from > Len(s) THEN 0
  ELSE IF EmphasisEnd(s, from, n) > 0 THEN from
  ELSE FirstEmphasis(s, from + 1, n)

\* s.split(/(\*{n}[^*]+\*{n})/g): the texts between the matches and the
\* matches, alternating, from index from on.
RECURSIVE SplitEmphasis(_, _, _)
SplitEmphasis(s, from, n) ==
  LET i == FirstEmphasis(s, from, n) IN
  IF i = 0 THEN <<SubSeq(s, from, Len(s))>>
  ELSE <<SubSeq(s, from, i - 1), SubSeq(s, i, EmphasisEnd(s, i, n) - 1)>>
       \o SplitEmphasis(s, EmphasisEnd(s, i, n), n)

\* s.slice(n, -n)
SliceBoth(s, n) == SubSeq(s, n + 1, Len(s) - n)

\* new TextRun({ text, bold, italics })
TextRun(text, bold, italics) == [text |-> text, bold |-> bold, italics |-> italics]

\* What the loop over italicParts pushes for one part.
ItalicRun(iPart) ==
  IF StartsWith(iPart, <<"*">>) /\ EndsWith(iPart, <<"*">>) /\ Len(iPart) > 2
  THEN <<TextRun(SliceBoth(iPart, 1), FALSE, TRUE)>>
  ELSE IF iPart # << >> THEN <<TextRun(iPart, FALSE, FALSE)>>
  ELSE << >>

RECURSIVE ItalicRuns(_)
ItalicRuns(italicParts) ==
  IF italicParts = << >> THEN << >>
  ELSE ItalicRun(Head(italicParts)) \o ItalicRuns(Tail(italicParts))

\* What the loop over boldParts pushes for one part.
BoldPartRuns(bPart) ==
  IF StartsWith(bPart, <<"*", "*">>) /\ EndsWith(bPart, <<"*", "*">>)
  THEN <<TextRun(SliceBoth(bPart, 2), TRUE, FALSE)>>
  ELSE ItalicRuns(SplitEmphasis(bPart, 1, 1))

SpliceCalled(text) ==
  [pc |-> "splice", text |-> text, boldParts |-> SplitEmphasis(text, 1, 2),
   k |-> 1, children |-> << >>]

InitSplice ==
  /\ lines = <<BlankLine>>
  /\ p = InitParser
  /\ pc = "idle"
  /\ sec = 0
  /\ blk = 0
  /\ docChildren = << >>
  /\ ast = AstIdle
  /\ tex = TexIdle
  /\ mermaidImageCache = {}
  /\ renderCalls = << >>
  /\ mathExport = MathExportIdle
  /\ conv \in {SpliceCalled(text) : text \in SpliceTexts}
  /\ call = Idle
  /\ ui = Idle

\* for (const bPart of boldParts) { ... }
SpliceBoldPart ==
  /\ conv.pc = "splice"
  /\ conv.k <= Len(conv.boldParts)
  /\ conv' = [conv EXCEPT !.children = @ \o BoldPartRuns(conv.boldParts[conv.k]),
                          !.k = @ + 1]
  /\ UNCHANGED <<lines, p, pc, exportVars, ast, mathVars, diagramVars,
                 mathExport, call, ui>>

\* return children
SpliceReturn ==
  /\ conv.pc = "splice"
  /\ conv.k > Len(conv.boldParts)
  /\ conv' = [conv EXCEPT !.pc = "returned"]
  /\ UNCHANGED <<lines, p, pc, exportVars, ast, mathVars, diagramVars,
                 mathExport, call, ui>>

NextSplice == SpliceBoldPart \/ SpliceReturn

SpecSplice == InitSplice /\ [][NextSplice]_vars

(***************************************************************************)
(* latexToComponents: the index i of its main loop.  What one iteration    *)
(* pushes to out does not bear on where it leaves i; the strings it passes *)
(* to itself (the groups of \frac and \sqrt, the scripts) are substrings   *)
(* of its argument.  SpecComponents: the loop on every string of at most   *)
(* MaxComponentPieces pieces, which is a set closed under substrings of    *)
(* whole pieces; n counts the iterations.                                  *)
(***************************************************************************)
ComponentPieces ==
  {<<"{">>, <<"}">>, <<"/">>, <<"a">>, <<"^">>, <<"_">>, <<" ">>, <<"\\">>,
   <<"\\", "f", "r", "a", "c">>, <<"\\", "s", "q", "r", "t">>}

ComponentInputs ==
  {Concat(s) : s \in UNION {[1..n -> ComponentPieces] : n \in 0..MaxComponentPieces}}

\* ['^', '_', ' ', '\\', '{', '}', '/']
StopChars == {"^", "_", " ", "\\", "{", "}", "/"}

\* while (i < latex.length && ![...].includes(latex[i])) i++
RECURSIVE StopEnd(_, _)
StopEnd(latex, i) ==
  IF i < Len(latex) /\ latex[i + 1] \notin StopChars
  THEN StopEnd(latex, i + 1) ELSE i

\* The loop of readGroup at a brace: i when it ends.
RECURSIVE BraceEnd(_, _, _)
BraceEnd(latex, i, depth) ==
  IF i >= Len(latex) THEN i
  ELSE IF latex[i + 1] = "{" THEN BraceEnd(latex, i + 1, depth + 1)
  ELSE IF latex[i + 1] = "}"
  THEN IF depth - 1 = 0 THEN i + 1 ELSE BraceEnd(latex, i + 1, depth - 1)
  ELSE BraceEnd(latex, i + 1, depth)

\* readGroup(): i after the call
GroupEnd(latex, i) ==
  IF CharAt(latex, i) = "{" THEN BraceEnd(latex, i, 0) ELSE StopEnd(latex, i)

\* if (latex[i] === '{') readGroup()
BracedGroupEnd(latex, i) ==
  IF CharAt(latex, i) = "{" THEN GroupEnd(latex, i) ELSE i

\* The last branch of the loop: let start = i; while (...) i++; pushRun(...)
PlainEnd(latex, i) == StopEnd(latex, i)

\* One iteration of while (i < latex.length): i after it.
IterationEnd(latex, i) ==
  LET ch == CharAt(latex, i) IN
  IF ch = "\\"
  THEN LET j   == LettersEnd(latex, i + 1)
           cmd == Substring(latex, i + 1, j)
       IN IF cmd = <<"f", "r", "a", "c">>
          THEN BracedGroupEnd(latex, BracedGroupEnd(latex, j))
          ELSE IF cmd \in {<<"s", "q", "r", "t">>,
                           <<"m", "a", "t", "h", "c", "a", "l">>}
          THEN BracedGroupEnd(latex, j)
          ELSE j
  ELSE IF ch \in {"^", "_"} THEN GroupEnd(latex, i + 1)
  ELSE IF ch = " " THEN i + 1
  ELSE PlainEnd(latex, i)

ComponentsCalled(latex) == [pc |-> "loop", latex |-> latex, i |-> 0, n |-> 0]

InitComponents ==
  /\ lines = <<BlankLine>>
  /\ p = InitParser
  /\ pc = "idle"
  /\ sec = 0
  /\ blk = 0
  /\ docChildren = << >>
  /\ ast = AstIdle
  /\ tex = TexIdle
  /\ mermaidImageCache = {}
  /\ renderCalls = << >>
  /\ mathExport = MathExportIdle
  /\ conv \in {ComponentsCalled(latex) : latex \in ComponentInputs}
  /\ call = Idle
  /\ ui = Idle

\* while (i < latex.length) { ... }
ComponentsIteration ==
  /\ conv.pc = "loop"
  /\ conv.i < Len(conv.latex)
  /\ conv.n < MaxIterations
  /\ conv' = [conv EXCEPT !.i = IterationEnd(conv.latex, conv.i), !.n = @ + 1]
  /\ UNCHANGED <<lines, p, pc, exportVars, ast, mathVars, diagramVars,
                 mathExport, call, ui>>

\* return out
ComponentsReturn ==
  /\ conv.pc = "loop"
  /\ conv.i >= Len(conv.latex)
  /\ conv' = [conv EXCEPT !.pc = "returned"]
  /\ UNCHANGED <<lines, p, pc, exportVars, ast, mathVars, diagramVars,
                 mathExport, call, ui>>

NextComponents == ComponentsIteration \/ ComponentsReturn

SpecComponents == InitComponents /\ [][NextComponents]_vars

(***************************************************************************)
(* generateMermaidImage and withTimeout, one event at a time.  call holds  *)
(* the global mermaid configuration, the calls made so far and the images  *)
(* the rasterizer has produced; mermaidImageCache is the module's cache.   *)
(***************************************************************************)
Themes == {"default", "forest"}

Codes == {<<"A">>}

NoTheme == "unset"

NoBytes == << >>

\* What a promise holds after resolve(v): the first resolve wins.
Resolve(promise, v) == IF promise = "pending" THEN v ELSE promise

\* Variant: the timer callback does nothing.
TimerCallbackIdle(finished, outer) == outer

\* setTimeout(() => { if (!finished) resolve(null); }, ms)
TimerCallback(finished, outer) ==
  IF ~finished THEN Resolve(outer, "null") ELSE outer

\* clearTimeout(timer)
ClearTimeout(timer) == IF timer = "pending" THEN "cleared" ELSE timer

\* The bytes the rasterizer produces from a chart rendered under a theme.
RenderedBytes(theme, code) == cacheKey(theme, code)

\* Variant: the image is stored whatever it is.
StoreAlways(cache, key, image, bytes) == CacheSet(cache, key, bytes)

\* if (rendered) { mermaidImageCache.set(cacheKey, rendered); }
StoreRendered(cache, key, image, bytes) ==
  IF image = "buffer" THEN CacheSet(cache, key, bytes) ELSE cache

NotCalled ==
  [pc |-> "idle", theme |-> NoTheme, code |-> << >>, hit |-> FALSE,
   configured |-> FALSE, invoked |-> FALSE, renderedWith |-> NoTheme,
   inner |-> "none", timer |-> "none", finished |-> FALSE, outer |-> "none",
   load |-> "none", imageTimer |-> "none", image |-> "none",
   result |-> "none", bytes |-> NoBytes]

MermaidCallSites == 1..MaxCalls

InitMermaid ==
  /\ lines = <<BlankLine>>
  /\ p = InitParser
  /\ pc = "idle"
  /\ sec = 0
  /\ blk = 0
  /\ docChildren = << >>
  /\ ast = AstIdle
  /\ tex = TexIdle
  /\ mermaidImageCache = {}
  /\ renderCalls = << >>
  /\ mathExport = MathExportIdle
  /\ conv = Idle
  /\ call = [config |-> NoTheme, calls |-> [n \in MermaidCallSites |-> NotCalled],
             rendered |-> {}]
  /\ ui = Idle

MermaidFrame ==
  UNCHANGED <<lines, p, pc, exportVars, ast, mathVars, renderCalls,
              mathExport, conv, ui>>

\* generateMermaidImage(code, theme) up to its first await: the cache
\* lookup, mermaid.initialize, mermaid.render and withTimeout's executor;
\* an exception in initialize or render is caught and null is returned.
MermaidCall(n) ==
  /\ call.calls[n].pc = "idle"
  /\ \A m \in 1..(n - 1) : call.calls[m].pc # "idle"
  /\ \E theme \in Themes, code \in Codes, threw \in BOOLEAN :
       LET key == cacheKey(theme, code)
           c == call.calls[n]
       IN IF CacheHas(mermaidImageCache, key)
          THEN /\ ~threw
               /\ call' = [call EXCEPT !.calls[n] =
                    [c EXCEPT !.pc = "returned", !.theme = theme,
                              !.code = code, !.hit = TRUE,
                              !.result = "bytes",
                              !.bytes = CacheGet(mermaidImageCache, key)]]
          ELSE IF threw
          THEN call' = [call EXCEPT !.calls[n] =
                    [c EXCEPT !.pc = "returned", !.theme = theme,
                              !.code = code, !.result = "null"]]
          ELSE call' = [call EXCEPT !.config = theme, !.calls[n] =
                    [c EXCEPT !.pc = "rendering", !.theme = theme,
                              !.code = code, !.configured = TRUE,
                              !.invoked = TRUE, !.renderedWith = theme,
                              !.inner = "pending", !.timer = "pending",
                              !.outer = "pending"]]
  /\ UNCHANGED mermaidImageCache
  /\ MermaidFrame

\* promise.then((v) => { finished = true; clearTimeout(timer); resolve(v); })
RenderFulfils(n) ==
  /\ call.calls[n].inner = "pending"
  /\ call' = [call EXCEPT !.calls[n] =
       [@ EXCEPT !.inner = "fulfilled", !.finished = TRUE,
                 !.timer = ClearTimeout(@), !.outer = Resolve(@, "value")]]
  /\ UNCHANGED mermaidImageCache
  /\ MermaidFrame

\* .catch(() => { finished = true; clearTimeout(timer); resolve(null); })
RenderRejects(n) ==
  /\ call.calls[n].inner = "pending"
  /\ call' = [call EXCEPT !.calls[n] =
       [@ EXCEPT !.inner = "rejected", !.finished = TRUE,
                 !.timer = ClearTimeout(@), !.outer = Resolve(@, "null")]]
  /\ UNCHANGED mermaidImageCache
  /\ MermaidFrame

\* withTimeout's timer fires after 4000 ms.
RenderTimerFires(n) ==
  /\ call.calls[n].timer = "pending"
  /\ call' = [call EXCEPT !.calls[n] =
       [@ EXCEPT !.timer = "fired",
                 !.outer = TimerCallback(call.calls[n].finished, @)]]
  /\ UNCHANGED mermaidImageCache
  /\ MermaidFrame

\* The await of withTimeout returns: if (!renderResult) return null;
\* otherwise the image promise is created (an exception while encoding the
\* svg is caught and null is returned).
RenderResumes(n) ==
  /\ call.calls[n].pc = "rendering"
  /\ call.calls[n].outer \in {"value", "null"}
  /\ \E threw \in BOOLEAN :
       call' = [call EXCEPT !.calls[n] =
         IF call.calls[n].outer = "null" \/ threw
         THEN [@ EXCEPT !.pc = "returned", !.result = "null"]
         ELSE [@ EXCEPT !.pc = "imaging", !.load = "pending",
                        !.imageTimer = "pending", !.image = "pending"]]
  /\ UNCHANGED mermaidImageCache
  /\ MermaidFrame

\* img.onload: no 2d context or no blob resolves null, the blob's
\* arrayBuffer resolves the buffer, and a handler that throws or an
\* arrayBuffer that rejects resolves nothing.
ImageLoads(n) ==
  /\ call.calls[n].load = "pending"
  /\ \E how \in {"buffer", "null", "nothing"} :
       LET c == call.calls[n]
           image == IF how = "nothing" THEN c.image ELSE Resolve(c.image, how)
       IN call' = [call EXCEPT
            !.calls[n] = [c EXCEPT !.load = "loaded", !.image = image],
            !.rendered = IF how = "buffer"
                         THEN @ \cup {CacheEntry(cacheKey(c.theme, c.code),
                                        RenderedBytes(c.renderedWith, c.code))}
                         ELSE @]
  /\ UNCHANGED mermaidImageCache
  /\ MermaidFrame

\* img.onerror = () => resolve(null)
ImageErrors(n) ==
  /\ call.calls[n].load = "pending"
  /\ call' = [call EXCEPT !.calls[n] =
       [@ EXCEPT !.load = "failed", !.image = Resolve(@, "null")]]
  /\ UNCHANGED mermaidImageCache
  /\ MermaidFrame

\* setTimeout(() => resolve(null), 4000)
ImageTimerFires(n) ==
  /\ call.calls[n].imageTimer = "pending"
  /\ call' = [call EXCEPT !.calls[n] =
       [@ EXCEPT !.imageTimer = "fired", !.image = Resolve(@, "null")]]
  /\ UNCHANGED mermaidImageCache
  /\ MermaidFrame

\* The await of the image promise returns: the image is stored if there is
\* one, and returned.
ImageResumes(n) ==
  /\ call.calls[n].pc = "imaging"
  /\ call.calls[n].image \in {"buffer", "null"}
  /\ LET c == call.calls[n]
         key == cacheKey(c.theme, c.code)
         bytes == RenderedBytes(c.renderedWith, c.code)
     IN /\ mermaidImageCache' =
             StoreRendered(mermaidImageCache, key, c.image, bytes)
        /\ call' = [call EXCEPT !.calls[n] =
             [c EXCEPT !.pc = "returned",
                       !.result = IF c.image = "buffer" THEN "bytes" ELSE "null",
                       !.bytes = IF c.image = "buffer" THEN bytes ELSE NoBytes]]
  /\ MermaidFrame

NextMermaid ==
  \E n \in MermaidCallSites :
    \/ MermaidCall(n)
    \/ RenderFulfils(n)
    \/ RenderRejects(n)
    \/ RenderTimerFires(n)
    \/ RenderResumes(n)
    \/ ImageLoads(n)
    \/ ImageErrors(n)
    \/ ImageTimerFires(n)
    \/ ImageResumes(n)

SpecMermaid == InitMermaid /\ [][NextMermaid]_vars

\* Timers that are pending fire, and a function whose awaited promise has
\* settled goes on; nothing makes the renderer or the image answer.
SpecMermaidFair ==
  /\ SpecMermaid
  /\ \A n \in MermaidCallSites :
       /\ WF_vars(RenderTimerFires(n))
       /\ WF_vars(RenderResumes(n))
       /\ WF_vars(ImageTimerFires(n))
       /\ WF_vars(ImageResumes(n))

(***************************************************************************)
(* The preview's loading counter: App's loadingCount and the render effect *)
(* of each MermaidBlock.  ui holds the counter, the number of effect runs  *)
(* so far and, for each block, its current effect run.                     *)
(***************************************************************************)
Blocks == 1..MaxBlocks

\* addLoading: () => setLoadingCount(c => c + 1)
addLoading(c) == c + 1

\* removeLoading: () => setLoadingCount(c => Math.max(0, c - 1))
removeLoading(c) == IF c - 1 > 0 THEN c - 1 ELSE 0

NoEffect ==
  [mounted |-> FALSE, isMounted |-> FALSE, render |-> "none",
   adds |-> 0, removes |-> 0]

\* One run of the render effect of block b, up to the await of
\* mermaid.render: addLoading, and for an empty chart removeLoading at once.
EffectRun(u, b, chart) ==
  [u EXCEPT
     !.runs = @ + 1,
     !.loadingCount = IF chart = << >> THEN removeLoading(addLoading(@))
                      ELSE addLoading(@),
     !.blocks[b] = [mounted |-> TRUE, isMounted |-> TRUE,
                    render |-> IF chart = << >> THEN "none" ELSE "pending",
                    adds |-> 1,
                    removes |-> IF chart = << >> THEN 1 ELSE 0]]

\* The cleanup the effect returned:
\* if (isMounted) { isMounted = false; removeLoading(); }
EffectCleanup(u, b) ==
  IF u.blocks[b].isMounted
  THEN [u EXCEPT !.loadingCount = removeLoading(@),
                 !.blocks[b].isMounted = FALSE,
                 !.blocks[b].removes = @ + 1]
  ELSE u

Charts == {<< >>, <<"A">>}

InitLoading ==
  /\ lines = <<BlankLine>>
  /\ p = InitParser
  /\ pc = "idle"
  /\ sec = 0
  /\ blk = 0
  /\ docChildren = << >>
  /\ ast = AstIdle
  /\ tex = TexIdle
  /\ mermaidImageCache = {}
  /\ renderCalls = << >>
  /\ mathExport = MathExportIdle
  /\ conv = Idle
  /\ call = Idle
  /\ ui = [loadingCount |-> 0, runs |-> 0, blocks |-> [b \in Blocks |-> NoEffect]]

LoadingFrame ==
  UNCHANGED <<lines, p, pc, exportVars, ast, mathVars, diagramVars,
              mathExport, conv, call>>

\* A MermaidBlock is mounted: its effect runs for the first time.
BlockMounts(b) ==
  /\ ~ui.blocks[b].mounted
  /\ ui.runs < MaxEffectRuns
  /\ \E chart \in Charts : ui' = EffectRun(ui, b, chart)
  /\ LoadingFrame

\* chart or theme of a mounted block changes: the cleanup of the last run,
\* then a new run.
BlockPropsChange(b) ==
  /\ ui.blocks[b].mounted
  /\ ui.runs < MaxEffectRuns
  /\ \E chart \in Charts : ui' = EffectRun(EffectCleanup(ui, b), b, chart)
  /\ LoadingFrame

\* A mounted block is unmounted: the cleanup of its last run.
BlockUnmounts(b) ==
  /\ ui.blocks[b].mounted
  /\ ui' = [EffectCleanup(ui, b) EXCEPT !.blocks[b].mounted = FALSE]
  /\ LoadingFrame

\* mermaid.render of the current run settles, fulfilled or rejected:
\* finally { if (isMounted) removeLoading(); }
BlockRenderSettles(b) ==
  /\ ui.blocks[b].render = "pending"
  /\ ui' = IF ui.blocks[b].isMounted
           THEN [ui EXCEPT !.loadingCount = removeLoading(@),
                           !.blocks[b].render = "settled",
                           !.blocks[b].removes = @ + 1]
           ELSE [ui EXCEPT !.blocks[b].render = "settled"]
  /\ LoadingFrame

NextLoading ==
  \E b \in Blocks :
    \/ BlockMounts(b)
    \/ BlockPropsChange(b)
    \/ BlockUnmounts(b)
    \/ BlockRenderSettles(b)

SpecLoading == InitLoading /\ [][NextLoading]_vars

(***************************************************************************)
(* App's debounce of the editor text.  ui holds markdown,                  *)
(* debouncedMarkdown, isDebouncing, the pending timer with the text its    *)
(* callback closed over, and the number of edits so far.                   *)
(***************************************************************************)
EditorTexts == {<< >>, <<"a">>, <<"b">>, <<"a", "b">>}

\* The debounce effect, run because markdown or debouncedMarkdown changed:
\* the cleanup of the last run clears its timer, then
\* if (markdown === debouncedMarkdown) return; setIsDebouncing(true) and a
\* new timer.
DebounceEffect(u) ==
  IF u.markdown = u.debouncedMarkdown
  THEN [u EXCEPT !.timer = "none", !.timerText = << >>]
  ELSE [u EXCEPT !.isDebouncing = TRUE, !.timer = "pending",
                 !.timerText = u.markdown]

InitDebounce ==
  /\ lines = <<BlankLine>>
  /\ p = InitParser
  /\ pc = "idle"
  /\ sec = 0
  /\ blk = 0
  /\ docChildren = << >>
  /\ ast = AstIdle
  /\ tex = TexIdle
  /\ mermaidImageCache = {}
  /\ renderCalls = << >>
  /\ mathExport = MathExportIdle
  /\ conv = Idle
  /\ call = Idle
  /\ ui = [markdown |-> << >>, debouncedMarkdown |-> << >>,
           isDebouncing |-> FALSE, timer |-> "none", timerText |-> << >>,
           edits |-> 0]

\* setMarkdown(text) with a text other than the current one.
EditorChange ==
  /\ ui.edits < MaxEdits
  /\ \E text \in EditorTexts \ {ui.markdown} :
       ui' = DebounceEffect([ui EXCEPT !.markdown = text, !.edits = @ + 1])
  /\ LoadingFrame

\* The 500 ms timer fires: setDebouncedMarkdown(markdown);
\* setIsDebouncing(false); the effect then runs again.
DebounceTimerFires ==
  /\ ui.timer = "pending"
  /\ ui' = DebounceEffect([ui EXCEPT !.debouncedMarkdown = ui.timerText,
                                     !.isDebouncing = FALSE,
                                     !.timer = "none"])
  /\ LoadingFrame

NextDebounce == EditorChange \/ DebounceTimerFires

SpecDebounce == InitDebounce /\ [][NextDebounce]_vars

\* A pending timer fires.
SpecDebounceFair == SpecDebounce /\ WF_vars(DebounceTimerFires)

(***************************************************************************)
(* ExportButtons.  ui holds isExporting and showExportMenu, the props      *)
(* markdown (empty or not) and disabled, the Word exports in flight, the   *)
(* pending resets scheduled by the PDF handler, the resets that have       *)
(* fired and the number of clicks so far.                                  *)
(***************************************************************************)
\* Variant: the handlers leave the export menu as it is.
ExportStartedMenuOpen(u) == [u EXCEPT !.isExporting = TRUE]

\* setIsExporting(true); setShowExportMenu(false);
ExportStarted(u) == [u EXCEPT !.isExporting = TRUE, !.showExportMenu = FALSE]

\* handleExportWord up to its first await.
handleExportWord(u) ==
  IF u.markdown = "empty" THEN u
  ELSE [ExportStarted(u) EXCEPT !.word = @ + 1]

\* handlePrintPdf: it returns at once if the preview element is missing,
\* otherwise it runs to its finally block, which schedules the reset.
handlePrintPdf(u, found) ==
  IF ~found THEN u
  ELSE [ExportStarted(u) EXCEPT !.pdfTimers = @ + 1]

\* disabled={disabled || isExporting}
ButtonEnabled(u) == ~(u.disabled \/ u.isExporting)

\* The props App passes: disabled={!markdown.trim() || isLoading}
ParentProps ==
  {[markdown |-> "empty", disabled |-> TRUE],
   [markdown |-> "text", disabled |-> TRUE],
   [markdown |-> "text", disabled |-> FALSE]}

InitButtons ==
  /\ lines = <<BlankLine>>
  /\ p = InitParser
  /\ pc = "idle"
  /\ sec = 0
  /\ blk = 0
  /\ docChildren = << >>
  /\ ast = AstIdle
  /\ tex = TexIdle
  /\ mermaidImageCache = {}
  /\ renderCalls = << >>
  /\ mathExport = MathExportIdle
  /\ conv = Idle
  /\ call = Idle
  /\ \E props \in ParentProps :
       ui = [isExporting |-> FALSE, showExportMenu |-> FALSE,
             markdown |-> props.markdown, disabled |-> props.disabled,
             word |-> 0, pdfTimers |-> 0, pdfResets |-> 0, clicks |-> 0]

Clicked(u) == [u EXCEPT !.clicks = @ + 1]

\* A click on the export button.
ClickExport ==
  /\ ui.clicks < MaxClicks
  /\ ButtonEnabled(ui)
  /\ ui' = Clicked(handleExportWord(ui))
  /\ LoadingFrame

\* A click on the menu toggle: setShowExportMenu(!showExportMenu)
ClickMenuToggle ==
  /\ ui.clicks < MaxClicks
  /\ ButtonEnabled(ui)
  /\ ui' = Clicked([ui EXCEPT !.showExportMenu = ~@])
  /\ LoadingFrame

\* A click on the menu's Word item.
ClickMenuWord ==
  /\ ui.clicks < MaxClicks
  /\ ui.showExportMenu
  /\ ui' = Clicked(handleExportWord(ui))
  /\ LoadingFrame

\* A click on the menu's PDF item.
ClickMenuPdf ==
  /\ ui.clicks < MaxClicks
  /\ ui.showExportMenu
  /\ \E found \in BOOLEAN : ui' = Clicked(handlePrintPdf(ui, found))
  /\ LoadingFrame

\* A mousedown outside the menu: setShowExportMenu(false)
ClickOutside ==
  /\ ui.clicks < MaxClicks
  /\ ui.showExportMenu
  /\ ui' = Clicked([ui EXCEPT !.showExportMenu = FALSE])
  /\ LoadingFrame

\* App renders ExportButtons with other props.
PropsChange ==
  /\ \E props \in ParentProps :
       /\ <<props.markdown, props.disabled>> # <<ui.markdown, ui.disabled>>
       /\ ui' = [ui EXCEPT !.markdown = props.markdown,
                           !.disabled = props.disabled]
  /\ LoadingFrame

\* A Word export settles, fulfilled or rejected:
\* finally { setIsExporting(false); }
WordExportSettles ==
  /\ ui.word > 0
  /\ ui' = [ui EXCEPT !.word = @ - 1, !.isExporting = FALSE]
  /\ LoadingFrame

\* setTimeout(() => setIsExporting(false), 1000) fires.
PdfResetFires ==
  /\ ui.pdfTimers > 0
  /\ ui' = [ui EXCEPT !.pdfTimers = @ - 1, !.pdfResets = @ + 1,
                      !.isExporting = FALSE]
  /\ LoadingFrame

NextButtons ==
  \/ ClickExport
  \/ ClickMenuToggle
  \/ ClickMenuWord
  \/ ClickMenuPdf
  \/ ClickOutside
  \/ PropsChange
  \/ WordExportSettles
  \/ PdfResetFires

SpecButtons == InitButtons /\ [][NextButtons]_vars

(***************************************************************************)
(* What the parser has emitted so far, in emission order.                  *)
(***************************************************************************)
RECURSIVE FlattenBlocks(_)
FlattenBlocks(secs) ==
  IF secs = << >> THEN << >>
  ELSE Head(secs).blocks \o FlattenBlocks(Tail(secs))

EmittedBlocks ==
  FlattenBlocks(p.sections)
    \o (IF pc = "parse" THEN p.currentSection.blocks ELSE << >>)

\* The number of leading # of a string, counted without the parser's helpers.
HashRun(s) ==
  CHOOSE n \in 0..Len(s) :
    /\ \A k \in 1..n : s[k] = "#"
    /\ n = Len(s) \/ s[n + 1] # "#"

(***************************************************************************)
(* C1.  Order preservation: the blocks the parser emits, flattened across  *)
(* sections, are in the order of the source lines they were built from (no *)
(* block follows a block that came from a later line), and exportToDocx    *)
(* emits its elements in the order of the sections and their blocks, an    *)
(* element for every block once the export is done.                        *)
(***************************************************************************)
C1_OrderPreserved ==
  /\ \A j, k \in 1..Len(EmittedBlocks) :
       j < k => EmittedBlocks[j].line < EmittedBlocks[k].line
  /\ \A j, k \in 1..Len(docChildren) :
       j < k => \/ docChildren[j].sec < docChildren[k].sec
                \/ /\ docChildren[j].sec = docChildren[k].sec
                   /\ docChildren[j].blk <= docChildren[k].blk
  /\ pc = "done" =>
       \A s \in 1..Len(sections) : \A b \in 1..Len(sections[s].blocks) :
         \E j \in 1..Len(docChildren) :
           docChildren[j].sec = s /\ docChildren[j].blk = b

\* The line after line k holds a | and a -.
FollowedBySeparator(k) ==
  /\ k + 1 <= Len(lines)
  /\ \E m \in 1..Len(lines[k + 1]) : lines[k + 1][m] = "|"
  /\ \E m \in 1..Len(lines[k + 1]) : lines[k + 1][m] = "-"

\* The parser is about to process a line that holds a | and that the math,
\* fence and heading handling do not consume.
AtPipeLine ==
  /\ pc = "parse"
  /\ p.i <= Len(lines)
  /\ LineKind(p, lines) = "pipe"

PipeParagraphBlock(k) == Block(PARAGRAPH, Trim(lines[k]), Undefined, NoTable, k)

(***************************************************************************)
(* C2.  As claimed: a line holding a | is pushed to the table rows if and  *)
(* only if the line after it holds a | and a -, and otherwise becomes a    *)
(* PARAGRAPH block holding its trimmed text.                               *)
(***************************************************************************)
C2_LookaheadDecides ==
  [][AtPipeLine =>
       /\ (p.i \in p'.rowLines) <=> FollowedBySeparator(p.i)
       /\ ~FollowedBySeparator(p.i) =>
            EmittedBlocks' = Append(EmittedBlocks, PipeParagraphBlock(p.i))]_vars

(***************************************************************************)
(* C2, amended.  The lookahead decides only while no table is open: a line *)
(* holding a |, reached outside table mode, is pushed to the table rows if *)
(* and only if the line after it holds a | and a -, and otherwise becomes  *)
(* a PARAGRAPH block holding its trimmed text; a line holding a | reached  *)
(* while a table is open is pushed to the table rows whatever follows it.  *)
(***************************************************************************)
C2_LookaheadOpensTable ==
  [][AtPipeLine =>
       /\ p.inTable => p.i \in p'.rowLines
       /\ ~p.inTable =>
            /\ (p.i \in p'.rowLines) <=> FollowedBySeparator(p.i)
            /\ ~FollowedBySeparator(p.i) =>
                 /\ EmittedBlocks' = Append(EmittedBlocks, PipeParagraphBlock(p.i))
                 /\ ~p'.inTable]_vars

C2_Witness ==
  /\ pc = "parsed"
  /\ \E k \in p.rowLines : ~FollowedBySeparator(k)
  /\ \E k \in p.rowLines : FollowedBySeparator(k)
  /\ \E j \in 1..Len(EmittedBlocks) :
       /\ EmittedBlocks[j].type = PARAGRAPH
       /\ \E m \in 1..Len(EmittedBlocks[j].content) :
            EmittedBlocks[j].content[m] = "|"

(***************************************************************************)
(* C3.  No line accumulated in table mode is lost: once the parser has     *)
(* returned, every line it pushed to tableRows belongs to the run of an    *)
(* emitted TABLE block or is the text of an emitted PARAGRAPH block.       *)
(***************************************************************************)
C3_NoTableLineLost ==
  pc # "parse" =>
    \A k \in p.rowLines :
      \E j \in 1..Len(EmittedBlocks) :
        LET b == EmittedBlocks[j] IN
        \/ /\ b.type = TABLE
           /\ b.line <= k
           /\ \A m \in b.line..k : m \in p.rowLines
        \/ /\ b.type = PARAGRAPH
           /\ b.line = k

\* A block stripped of its history field, and a block wrapped again in the
\* fence or marker of its type.
BlockView(b) == <<b.type, b.content, b.language>>

Rewrap(b) ==
  LET body == Split(b.content, "\n") IN
  IF b.type = CODE_BLOCK
  THEN IF Trim(lines[b.line]) = <<"$", "$">>
       THEN <<(<<"$", "$">>)>> \o body \o <<(<<"$", "$">>)>>
       ELSE <<Fence3 \o b.language>> \o body \o <<Fence3>>
  ELSE IF b.type = LIST_ITEM THEN <<(<<"-", " ">> \o b.content)>>
  ELSE IF b.type = BLOCKQUOTE
  THEN [k \in 1..Len(body) |-> <<">", " ">> \o body[k]]
  ELSE <<b.content>>

Reparse(b) == parseLines(Split(Join(Rewrap(b), <<"\n">>), "\n"))

(***************************************************************************)
(* C4.  Structural round trip: once the parser has returned, each emitted  *)
(* CODE_BLOCK, math block, LIST_ITEM, BLOCKQUOTE and PARAGRAPH block,      *)
(* wrapped again in its fence or marker (the fence and language, $$ lines  *)
(* for a block a $$ line opened, "- ", "> " before each line, or nothing)  *)
(* and parsed alone, yields one section holding exactly one block of the   *)
(* same type, content and language.                                        *)
(***************************************************************************)
C4_RoundTrip ==
  pc = "parsed" =>
    \A j \in 1..Len(EmittedBlocks) :
      LET b == EmittedBlocks[j] IN
      b.type \in {CODE_BLOCK, LIST_ITEM, BLOCKQUOTE, PARAGRAPH} =>
        LET r == Reparse(b) IN
        /\ Len(r) = 1
        /\ Len(r[1].blocks) = 1
        /\ BlockView(r[1].blocks[1]) = BlockView(b)

C4_Witness ==
  /\ pc = "parsed"
  /\ \E j, k \in 1..Len(EmittedBlocks) :
       /\ EmittedBlocks[j].type = CODE_BLOCK
       /\ EmittedBlocks[j].language = MermaidLanguage
       /\ Len(Split(EmittedBlocks[j].content, "\n")) = 2
       /\ EmittedBlocks[k].type = BLOCKQUOTE

\* The steps of the math-block handling, as conditions on one step.
AtMathFenceLine ==
  /\ pc = "parse"
  /\ p.i <= Len(lines)
  /\ Trim(lines[p.i]) = <<"$", "$">>

AtLineInMath ==
  /\ pc = "parse"
  /\ p.i <= Len(lines)
  /\ Trim(lines[p.i]) # <<"$", "$">>
  /\ p.inMathBlock

MathBlockOf(st) ==
  Block(CODE_BLOCK, Join(st.mathBlockContent, <<"\n">>), MathLanguage, NoTable,
        st.mathStart)

C5_MathOpens ==
  AtMathFenceLine /\ ~p.inMathBlock /\ ~p.inCodeBlock =>
    /\ p'.inMathBlock
    /\ p'.mathBlockContent = << >>
    /\ ~p'.inCodeBlock /\ ~p'.inTable /\ ~p'.inBlockquote

C5_MathAccumulates ==
  AtLineInMath =>
    /\ p'.mathBlockContent = Append(p.mathBlockContent, lines[p.i])
    /\ p'.inMathBlock
    /\ ~p'.inCodeBlock /\ ~p'.inTable /\ ~p'.inBlockquote
    /\ EmittedBlocks' = EmittedBlocks

(***************************************************************************)
(* C5.  As claimed: a line whose trimmed form is $$, outside a fenced code *)
(* block, opens math mode and the next such line closes it; while math     *)
(* mode is open every other line is appended verbatim to the math content, *)
(* no block is emitted and no other mode is entered; the closing line      *)
(* emits exactly one CODE_BLOCK of language "math" whose content is the    *)
(* accumulated lines joined by newline.                                    *)
(***************************************************************************)
C5_MathCapture ==
  [][/\ C5_MathOpens
     /\ C5_MathAccumulates
     /\ AtMathFenceLine /\ p.inMathBlock =>
          /\ ~p'.inMathBlock
          /\ EmittedBlocks' = Append(EmittedBlocks, MathBlockOf(p))]_vars

(***************************************************************************)
(* C5, amended.  The same, except that the closing line emits the          *)
(* CODE_BLOCK of language "math" only when at least one line was           *)
(* accumulated; a math block closed right after it was opened emits no     *)
(* block.                                                                  *)
(***************************************************************************)
C5_MathCaptureNonEmpty ==
  [][/\ C5_MathOpens
     /\ C5_MathAccumulates
     /\ AtMathFenceLine /\ p.inMathBlock =>
          /\ ~p'.inMathBlock
          /\ p'.mathBlockContent = << >>
          /\ EmittedBlocks' = IF p.mathBlockContent # << >>
                              THEN Append(EmittedBlocks, MathBlockOf(p))
                              ELSE EmittedBlocks]_vars

C5_Witness ==
  /\ ~p.inMathBlock
  /\ \E j \in 1..Len(EmittedBlocks) :
       LET b == EmittedBlocks[j] IN
       /\ b.type = CODE_BLOCK
       /\ b.language = MathLanguage
       /\ Trim(lines[b.line]) = <<"$", "$">>
       /\ b.content = Fence3 \o <<"\n">>

\* The blocks of the modes open in st, in the order of the flush.
OpenBlocks(st) ==
  (IF st.inCodeBlock /\ st.codeBlockContent # << >>
   THEN <<Block(CODE_BLOCK, Join(st.codeBlockContent, <<"\n">>),
                Trim(st.codeLanguage), NoTable, st.codeStart)>>
   ELSE << >>)
  \o (IF st.inMathBlock /\ st.mathBlockContent # << >>
      THEN <<MathBlockOf(st)>> ELSE << >>)
  \o (IF st.inBlockquote /\ st.blockquoteContent # << >>
      THEN <<Block(BLOCKQUOTE, Join(st.blockquoteContent, <<"\n">>),
                   Undefined, NoTable, st.quoteStart)>>
      ELSE << >>)

(***************************************************************************)
(* C6.  End-of-input flush: when the input ends with a mode open, the      *)
(* lines accumulated for it are emitted as its block and the section       *)
(* holding them is in the result.  For a fence, a $$ block and a           *)
(* blockquote this is the flush after the loop; a table run that reaches   *)
(* the last line is closed by the lookahead on that line, and its rows are *)
(* emitted as one block too.                                               *)
(***************************************************************************)
C6_EndOfInputFlush ==
  [][/\ (pc = "parse" /\ p.i > Len(lines)) =>
          EmittedBlocks' = EmittedBlocks \o OpenBlocks(p)
     /\ (AtPipeLine /\ p.i = Len(lines) /\ p.i \in p'.rowLines) =>
          /\ Len(EmittedBlocks') = Len(EmittedBlocks) + 1
          /\ EmittedBlocks'[Len(EmittedBlocks')].type \in {TABLE, PARAGRAPH}]_vars

(***************************************************************************)
(* C7.  Section emission: every section of the result holds at least one   *)
(* block, and the result is exactly the sections the parser ended (at a    *)
(* heading line or at the end of input) that hold at least one block, in   *)
(* order; a section ended empty yields no Section.                         *)
(***************************************************************************)
C7_SectionsNonEmpty ==
  /\ \A j \in 1..Len(p.sections) : Len(p.sections[j].blocks) >= 1
  /\ p.sections = SelectSeq(p.closed, LAMBDA s : Len(s.blocks) >= 1)
  /\ \A j \in 1..Len(p.closed) :
       /\ p.closed[j].line = 0 <=> j = 1
       /\ p.closed[j].line > 0 =>
            Trim(lines[p.closed[j].line])[1] = "#"
  /\ pc = "parse" => Len(p.closed) = Cardinality(
        {k \in 1..(p.i - 1) : k = p.currentSection.line
                               \/ \E j \in 1..Len(p.closed) : p.closed[j].line = k})

C7_Witness ==
  /\ pc = "parsed"
  /\ Len(p.sections) >= 1
  /\ \E j \in 1..Len(p.closed) :
       p.closed[j].line > 0 /\ Len(p.closed[j].blocks) = 0

(***************************************************************************)
(* C9.  As claimed: every Section of the result has its level in 1..6.     *)
(***************************************************************************)
C9_LevelInRange ==
  \A j \in 1..Len(p.sections) : p.sections[j].level \in 1..6

(***************************************************************************)
(* C9, amended.  A Section's level is the number of leading # of its       *)
(* heading line, however many there are (1 for the implicit first          *)
(* section); it is the heading element exportToDocx emits for it whose     *)
(* heading level is in 1..6, a level outside 1..6 being emitted as 1.      *)
(***************************************************************************)
C9_LevelIsHashCount ==
  /\ \A j \in 1..Len(p.sections) :
       LET s == p.sections[j] IN
       s.level = IF s.line = 0 THEN 1 ELSE HashRun(Trim(lines[s.line]))
  /\ \A j \in 1..Len(docChildren) :
       docChildren[j].role = "heading" =>
         LET level == sections[docChildren[j].sec].level IN
         /\ docChildren[j].heading \in 1..6
         /\ docChildren[j].heading = IF level <= 6 THEN level ELSE 1

C9_Witness ==
  /\ pc = "done"
  /\ \E j \in 1..Len(docChildren) :
       /\ docChildren[j].role = "heading"
       /\ sections[docChildren[j].sec].level = 7
       /\ docChildren[j].heading = 1

\* A section with zero blocks and the default title.
EmptyDefault(s) == Len(s.blocks) = 0 /\ s.title = DefaultTitle

(***************************************************************************)
(* C8.  As claimed: the list the AST-based parser returns holds no section *)
(* with zero blocks and the default title.                                 *)
(***************************************************************************)
C8_NoEmptyDefaultSection ==
  ast.status = "returned" =>
    \A j \in 1..Len(ast.result) : ~EmptyDefault(ast.result[j])

(***************************************************************************)
(* C8, amended.  No section appended by flushSection has zero blocks and   *)
(* the default title; the returned list holds such a section only when     *)
(* flushSection appended no section at all, and then the list is that one  *)
(* section alone (the parser returns at least one section).                *)
(***************************************************************************)
C8_EmptyDefaultOnlyAsFallback ==
  /\ \A j \in 1..Len(ast.sections) : ~EmptyDefault(ast.sections[j])
  /\ ast.status = "returned" =>
       /\ Len(ast.result) >= 1
       /\ \A j \in 1..Len(ast.result) :
            EmptyDefault(ast.result[j]) =>
              Len(ast.result) = 1 /\ ast.sections = << >>

C8_Witness ==
  /\ ast.status = "returned"
  /\ ast.arg = "string"
  /\ ~ast.parserThrew
  /\ Len(ast.nodes) >= 1
  /\ Len(ast.result) = 1
  /\ EmptyDefault(ast.result[1])

(***************************************************************************)
(* C10.  The parse entry point throws exactly when its argument is not a   *)
(* string; for a string argument every call goes on until it returns, and  *)
(* it returns a non-empty section list, which is the single fallback error *)
(* section when the Markdown AST parser threw.                             *)
(***************************************************************************)
C10_ThrowsOnlyForNonString ==
  /\ ast.status = "threw" => ast.arg # "string"
  /\ ast.status \in {"loop", "returned"} => ast.arg = "string"
  /\ ast.status \in {"called", "loop"} => ENABLED NextAst
  /\ ast.status = "returned" =>
       /\ Len(ast.result) >= 1
       /\ ast.parserThrew => ast.result = <<ErrorSection>>
       /\ ~ast.parserThrew => ast.k = Len(ast.nodes) + 1

C10_Witness ==
  /\ ast.status = "returned"
  /\ ast.parserThrew
  /\ Len(ast.nodes) >= 1
  /\ ast.result = <<ErrorSection>>

\* The number of mode flags that are set.
ModeCount(st) ==
  Cardinality({f \in {"code", "math", "table", "quote"} :
                 \/ f = "code"  /\ st.inCodeBlock
                 \/ f = "math"  /\ st.inMathBlock
                 \/ f = "table" /\ st.inTable
                 \/ f = "quote" /\ st.inBlockquote})

\* The step sets the flag of mode f.
Enters(f) ==
  \/ f = "code"  /\ ~p.inCodeBlock  /\ p'.inCodeBlock
  \/ f = "math"  /\ ~p.inMathBlock  /\ p'.inMathBlock
  \/ f = "table" /\ ~p.inTable      /\ p'.inTable
  \/ f = "quote" /\ ~p.inBlockquote /\ p'.inBlockquote

\* After the step mode f is closed and holds no accumulated content.
ClosedAfter(f) ==
  \/ f = "code"  /\ ~p'.inCodeBlock  /\ p'.codeBlockContent = << >>
  \/ f = "math"  /\ ~p'.inMathBlock  /\ p'.mathBlockContent = << >>
  \/ f = "table" /\ ~p'.inTable      /\ p'.tableRows = << >>
  \/ f = "quote" /\ ~p'.inBlockquote /\ p'.blockquoteContent = << >>

\* What was accumulated for a mode open before the step has been handed to
\* its flush: the blocks of the current section are those the flush leaves
\* (for a blockquote, its BLOCKQUOTE block).
FlushedBefore ==
  /\ p.inBlockquote /\ ~p'.inBlockquote =>
       p'.currentSection.blocks = flushBlockquote(p).currentSection.blocks
  /\ p.inTable /\ ~p'.inTable /\ ~Enters("table") =>
       p'.currentSection.blocks = flushTable(p).currentSection.blocks

(***************************************************************************)
(* C18.  Mode-flag mutual exclusion: after each line the parser processes, *)
(* at most one of inCodeBlock, inMathBlock, inTable, inBlockquote is true, *)
(* and a step that enters a mode leaves every other mode closed, with its  *)
(* accumulated content flushed.                                            *)
(***************************************************************************)
C18_ModesExclusive ==
  [][ /\ ModeCount(p') <= 1
      /\ \A f \in {"code", "math", "table", "quote"} :
           Enters(f) =>
             /\ \A g \in {"code", "math", "table", "quote"} \ {f} : ClosedAfter(g)
             /\ FlushedBefore ]_vars

C18_Witness ==
  /\ pc = "parse"
  /\ p.inCodeBlock
  /\ p.codeStart = 2
  /\ ModeCount(p) = 1
  /\ \E j \in 1..Len(p.currentSection.blocks) :
       /\ p.currentSection.blocks[j].type = BLOCKQUOTE
       /\ p.currentSection.blocks[j].line = 1

\* The run of lines pushed to tableRows that starts at line k.
RECURSIVE TableRun(_)
TableRun(k) ==
  IF k \in p.rowLines THEN {k} \cup TableRun(k + 1) ELSE {}

(***************************************************************************)
(* C19.  A TABLE block requires a separator row: the run of lines a TABLE  *)
(* block was built from holds a line that, with every | removed, consists  *)
(* only of -, : and spaces.                                                *)
(***************************************************************************)
C19_TableHasSeparator ==
  \A j \in 1..Len(EmittedBlocks) :
    EmittedBlocks[j].type = TABLE =>
      \E k \in TableRun(EmittedBlocks[j].line) : IsSeparatorRow(Trim(lines[k]))

\* The lines whose content a BLOCKQUOTE block starting at line k with n
\* lines of content holds, were they consecutive.
QuoteRunOK(b) ==
  LET n == Len(Split(b.content, "\n")) IN
  /\ b.line + n - 1 <= Len(lines)
  /\ \A k \in b.line..(b.line + n - 1) : StartsWith(Trim(lines[k]), <<">">>)
  /\ b.content = Join([k \in 1..n |-> StripQuote(Trim(lines[b.line + k - 1]))],
                      <<"\n">>)

(***************************************************************************)
(* C20.  Blockquote closing: processing a line that does not start with >  *)
(* leaves blockquote mode closed, and every BLOCKQUOTE block holds a run   *)
(* of consecutive source lines that each start with >.                     *)
(***************************************************************************)
C20_BlockquoteClosed ==
  [][ /\ (pc = "parse" /\ p.i <= Len(lines)
            /\ ~StartsWith(trimmedLine(p, lines), <<">">>))
         => ~p'.inBlockquote
      /\ \A j \in 1..Len(p'.currentSection.blocks) :
           p'.currentSection.blocks[j].type = BLOCKQUOTE =>
             QuoteRunOK(p'.currentSection.blocks[j]) ]_vars

\* t never decreases.
NonDecreasing(t) == \A k \in 1..(Len(t) - 1) : t[k] <= t[k + 1]

(***************************************************************************)
(* C11.  Forward progress of the LaTeX tokenizer: every call of parseNext  *)
(* made with cursor < n, at the top level or nested in a group, an         *)
(* optional group or an operand, returns with the cursor increased by at   *)
(* least 1, and the cursor never decreases; so each iteration of the loop  *)
(* of parseLatexToStructure brings the cursor nearer to n and the loop     *)
(* ends, with the cursor at or past n, after at most n iterations, for     *)
(* every input.                                                            *)
(***************************************************************************)
C11_ForwardProgress ==
  [][ /\ tex'.cursor >= tex.cursor
      /\ (tex.pc = "tokenize" /\ tex'.pc = "tokenize")
           => tex'.cursor >= tex.cursor + 1
      /\ \A c \in tex'.h.calls :
           /\ c[2] >= c[1]
           /\ c[1] < Len(tex.latex) => c[2] >= c[1] + 1
      /\ NonDecreasing(tex'.h.trace)
      /\ tex'.pc # "tokenize" => tex'.cursor >= Len(tex.latex) ]_vars

\* An unbalanced { or an unterminated [ has been read to the end of the
\* string by nested calls of parseNext, and the tokenizer has returned.
C11_Witness ==
  /\ tex.pc = "build"
  /\ tex.cursor = Len(tex.latex) + 1
  /\ Cardinality(tex.h.calls) >= 3
  /\ \E c \in tex.h.calls : c[1] > 0 /\ c[2] = Len(tex.latex)

(***************************************************************************)
(* C12.  Graceful fallback: convertLatexToDocxMath returns a non-empty     *)
(* list of primitives for every input string: what the three stages        *)
(* produce when that is not empty, and otherwise, as when a stage throws,  *)
(* one run holding the raw LaTeX text.  No step leaves the call in a       *)
(* state other than the stages and the return.                             *)
(***************************************************************************)
C12_GracefulFallback ==
  /\ tex.pc \in {"tokenize", "build", "render", "done"}
  /\ tex.pc = "done" =>
       /\ Len(tex.result) >= 1
       /\ tex.caught => tex.result = <<MathRun(tex.latex)>>
       /\ ~tex.caught =>
            /\ tex.docxNodes = << >> => tex.result = <<MathRun(tex.latex)>>
            /\ tex.docxNodes # << >> => tex.result = tex.docxNodes

\* An input with an unbalanced { was converted, nothing was rendered for
\* it, and the call returned the raw text.
C12_Witness ==
  /\ tex.pc = "done"
  /\ ~tex.caught
  /\ Len(tex.latex) >= 2
  /\ tex.latex[1] = "{"
  /\ ~Includes(tex.latex, "}")
  /\ tex.docxNodes = << >>
  /\ tex.result = <<MathRun(tex.latex)>>

\* Every operand list of the structural primitives of a list is non-empty.
RECURSIVE Guarded(_)
Guarded(prims) ==
  \A k \in 1..Len(prims) :
    LET q == prims[k] IN
    /\ q.kind = "MathFraction" =>
         /\ q.numerator # << >> /\ Guarded(q.numerator)
         /\ q.denominator # << >> /\ Guarded(q.denominator)
    /\ q.kind = "MathLimitLower" => q.limit # << >> /\ Guarded(q.limit)
    /\ q.kind \in {"MathSubSuperScript", "MathSubScript"} => q.subScript.defined
    /\ q.kind \in {"MathSubSuperScript", "MathSuperScript"} => q.superScript.defined
    /\ q.kind \notin {"MathRun", "MathFraction"} =>
         q.children # << >> /\ Guarded(q.children)
    /\ q.kind # "MathRun" =>
         /\ q.degree.defined =>
              q.degree.nodes # << >> /\ Guarded(q.degree.nodes)
         /\ q.subScript.defined =>
              q.subScript.nodes # << >> /\ Guarded(q.subScript.nodes)
         /\ q.superScript.defined =>
              q.superScript.nodes # << >> /\ Guarded(q.superScript.nodes)

(***************************************************************************)
(* C13.  Empty-operand guard: in everything renderToDocxMath has produced, *)
(* each operand list of a structural primitive (numerator and denominator  *)
(* of a fraction, children and degree of a radical, limit expression,      *)
(* sub- and superscript and body of an n-ary operator, base, sub- and      *)
(* superscript of a script) is non-empty.                                  *)
(***************************************************************************)
C13_OperandsNonEmpty ==
  /\ Guarded(tex.docxNodes)
  /\ Guarded(tex.result)

\* A fraction whose operands are an empty group and nothing was rendered
\* with a blank run in the place of each.
C13_Witness ==
  /\ tex.pc = "done"
  /\ ~tex.caught
  /\ Len(tex.latex) > 5
  /\ \E k \in 1..Len(tex.result) :
       /\ tex.result[k].kind = "MathFraction"
       /\ tex.result[k].numerator = <<MathRun(<<" ">>)>>
       /\ tex.result[k].denominator = <<MathRun(<<" ">>)>>

\* buildMathTree has returned for a base node followed by two marker and
\* operand pairs.
TwoScripts ==
  /\ tex.pc = "render"
  /\ Len(tex.rawNodes) = 5
  /\ IsMarker(tex.rawNodes, 2)
  /\ IsMarker(tex.rawNodes, 4)

OppositeMarkers == tex.rawNodes[2].val # tex.rawNodes[4].val

\* The node that carries the given scripts on the base.
Scripted(base, sub, sup) ==
  IF base.type = "sum" THEN SumNode(base.isIntegral, sub, sup)
  ELSE ScriptNode(<<base>>, sub, sup)

\* The node that carries both scripts: the operand that follows _ as sub,
\* the operand that follows ^ as sup.
BothScripts ==
  LET n     == tex.rawNodes
      subOp == IF n[2].val = <<"_">> THEN n[3] ELSE n[5]
      supOp == IF n[2].val = <<"^">> THEN n[3] ELSE n[5]
  IN Scripted(n[1], Present(flattenNode(subOp)), Present(flattenNode(supOp)))

\* The node that carries the first script only.
FirstScript ==
  LET n  == tex.rawNodes
      op == Present(flattenNode(n[3]))
  IN IF n[2].val = <<"_">> THEN Scripted(n[1], op, Absent)
     ELSE Scripted(n[1], Absent, op)

\* The same base with the two marker and operand pairs in the other order.
Swapped ==
  LET n == tex.rawNodes IN <<n[1], n[4], n[5], n[2], n[3]>>

\* What buildMathTree does with the script pairs of a base of the given
\* kind: both attached in one node whichever comes first when they are of
\* opposite kinds, the first only when they are of the same kind.
TieBreak ==
  /\ OppositeMarkers =>
       /\ tex.structuredNodes = <<BothScripts>>
       /\ buildMathTree(Swapped) = tex.structuredNodes
  /\ ~OppositeMarkers =>
       /\ Len(tex.structuredNodes) >= 2
       /\ tex.structuredNodes[1] = FirstScript
       /\ tex.structuredNodes[2] = tex.rawNodes[4]

(***************************************************************************)
(* C14.  As claimed: for every base node followed by marker m1, operand    *)
(* o1, marker m2, operand o2, buildMathTree emits exactly one node         *)
(* carrying both sub and sup when m1 and m2 are of opposite kinds, the     *)
(* same node whichever of _ and ^ comes first; when they are of the same   *)
(* kind the first script is kept and the second marker is not attached.    *)
(***************************************************************************)
C14_ScriptTieBreak == TwoScripts => TieBreak

(***************************************************************************)
(* C14, amended.  The same for every base that is not a limit node.  A     *)
(* limit node takes only a subscript that follows it directly: followed by *)
(* _ and an operand it becomes a limit node with that sub, and the second  *)
(* marker is not attached to it; followed by ^ it becomes the plain text   *)
(* of its name and no script is attached to it.                            *)
(***************************************************************************)
C14_ScriptTieBreakExceptLimit ==
  TwoScripts =>
    LET n == tex.rawNodes IN
    IF n[1].type # "limit" THEN TieBreak
    ELSE /\ Len(tex.structuredNodes) >= 2
         /\ n[2].val = <<"_">> =>
              /\ tex.structuredNodes[1] = LimitNode(n[1].val, flattenNode(n[3]))
              /\ tex.structuredNodes[2] = n[4]
         /\ n[2].val = <<"^">> =>
              tex.structuredNodes[1] = TextNode(n[1].val, "plain")

\* A sum node followed by ^ operand _ operand was built into one sum node
\* with both limits, the operand of _ a group that was resolved.
C14_Witness ==
  /\ TwoScripts
  /\ tex.rawNodes[1].type = "sum"
  /\ tex.rawNodes[2].val = <<"^">>
  /\ tex.rawNodes[4].val = <<"_">>
  /\ tex.rawNodes[5].type = "group"
  /\ Len(tex.structuredNodes) = 1
  /\ tex.structuredNodes[1].type = "sum"
  /\ tex.structuredNodes[1].sub.defined
  /\ tex.structuredNodes[1].sup.defined
  /\ tex.structuredNodes[1].sub.nodes[1].type = "script"

(***************************************************************************)
(* C16.                                                                    *)
(***************************************************************************)
ElementsAt(s, b) == SelectSeq(docChildren, LAMBDA e : e.sec = s /\ e.blk = b)

\* The loop of exportToDocx is past block b of section s.
Processed(s, b) ==
  \/ pc = "done"
  \/ pc = "export" /\ (s < sec \/ (s = sec /\ b < blk))

IsMermaidBlock(s, b) ==
  /\ sections[s].blocks[b].type = CODE_BLOCK
  /\ sections[s].blocks[b].language = MermaidLanguage

RenderSucceeded(c) == c.outcome \in {"cached", "rendered"}

InBlockOrder(e, f) == e.sec < f.sec \/ (e.sec = f.sec /\ e.blk <= f.blk)

\* C16: whatever the diagram renderer does for a mermaid block (success,
\* failure, no answer before the timeout), exportToDocx never aborts, it has
\* pushed exactly one paragraph for the block (the image on success, the red
\* label otherwise) at the block's position among the elements, and every
\* block the loop is past, up to the last one when the export is done, has
\* its elements.
C16_DiagramFailureNonFatal ==
  /\ pc # "failed"
  /\ \A k \in 1..Len(renderCalls) :
       LET c == renderCalls[k] IN
       /\ ~c.threw
       /\ Len(ElementsAt(c.sec, c.blk)) = 1
       /\ ElementsAt(c.sec, c.blk)[1].kind = "Paragraph"
       /\ ElementsAt(c.sec, c.blk)[1].role =
            IF RenderSucceeded(c) THEN "image" ELSE "error"
  /\ \A s \in 1..Len(sections) : \A b \in 1..Len(sections[s].blocks) :
       Processed(s, b) =>
         /\ ElementsAt(s, b) # << >>
         /\ IsMermaidBlock(s, b) =>
              \E k \in 1..Len(renderCalls) :
                renderCalls[k].sec = s /\ renderCalls[k].blk = b
  /\ \A i \in 1..Len(docChildren) : \A j \in i..Len(docChildren) :
       InBlockOrder(docChildren[i], docChildren[j])

\* A finished export in which the renderer gave no answer for a diagram that
\* is followed by another block.
C16_Witness ==
  /\ pc = "done"
  /\ \E k \in 1..Len(renderCalls) :
       /\ renderCalls[k].outcome = "renderSilent"
       /\ \E e \in 1..Len(docChildren) :
            /\ docChildren[e].sec = renderCalls[k].sec
            /\ docChildren[e].blk > renderCalls[k].blk
            /\ docChildren[e].role = "text"

(***************************************************************************)
(* C15.                                                                    *)
(***************************************************************************)
\* C15: in image mode, for every inline segment and every block math
\* occurrence for which the rasterizer returned no image, the driver has
\* pushed the native math element that convertLatexToDocxMath gives for that
\* source, at the occurrence's place, and has gone on to the next
\* occurrence.
C15_ImageModeFallback ==
  /\ Len(mathExport.out) = Len(mathExport.results)
  /\ mathExport.pc \in {"loop", "done"} =>
       Len(mathExport.out) = mathExport.i - 1
  /\ mathExport.pc = "done" => Len(mathExport.out) = Len(mathExport.items)
  /\ \A k \in 1..Len(mathExport.results) :
       (mathExport.mathMode = "image" /\ mathExport.results[k] = "null") =>
         mathExport.out[k] =
           MathElement(mathExport.items[k].site,
                       convertLatexToDocxMath(mathExport.items[k].latex))

\* A finished export in image mode whose first occurrence, an inline
\* fraction, got no image and whose second, a block, got one.
C15_Witness ==
  /\ mathExport.pc = "done"
  /\ mathExport.mathMode = "image"
  /\ Len(mathExport.items) = 2
  /\ mathExport.items[1].site = "inline"
  /\ mathExport.items[1].latex = <<"\\", "f", "r", "a", "c">>
  /\ mathExport.results = <<"null", "buffer">>
  /\ mathExport.out[1].kind = "math"

(***************************************************************************)
(* C17.                                                                    *)
(***************************************************************************)
AwaitingRasterizer == mathExport.pc \in {"fetch", "blob", "arrayBuffer"}

\* C17: whatever the rasterizing service does, a call of generateMathImage
\* that has been made eventually returns to the driver, with image bytes or
\* with null.
C17_RasterizerResolves == AwaitingRasterizer ~> (mathExport.pc = "returned")

(***************************************************************************)
(* C22.                                                                    *)
(***************************************************************************)
\* A run whose text is empty or made of spaces only.
IsBlankRun(q) ==
  /\ q.kind = "MathRun"
  /\ \A k \in 1..Len(q.text) : q.text[k] = " "

\* C22: whenever the three stages give an empty list of primitives,
\* convertLatexToDocxMath returns exactly one run and that run is blank: it
\* does not carry the source text.
C22_EmptyResultIsBlankRun ==
  (tex.pc = "done" /\ ~tex.caught /\ tex.docxNodes = << >>) =>
    /\ Len(tex.result) = 1
    /\ IsBlankRun(tex.result[1])

(***************************************************************************)
(* C23.                                                                    *)
(***************************************************************************)
\* In a list of parsed nodes and in every list nested in it, each marker
\* has a node that is not a marker right before it and right after it.
RECURSIVE MarkersPlaced(_)
MarkersPlaced(nodes) ==
  /\ \A k \in 1..Len(nodes) :
       IsMarker(nodes, k) =>
         /\ k > 1 /\ ~IsMarker(nodes, k - 1)
         /\ k < Len(nodes) /\ ~IsMarker(nodes, k + 1)
  /\ \A k \in 1..Len(nodes) :
       /\ MarkersPlaced(nodes[k].children)
       /\ MarkersPlaced(nodes[k].num)
       /\ MarkersPlaced(nodes[k].den)
       /\ MarkersPlaced(nodes[k].deg.nodes)

\* A marker text node at the top of a list of nodes or anywhere below it.
RECURSIVE HasMarker(_)
HasMarker(nodes) ==
  \E k \in 1..Len(nodes) :
    \/ IsMarker(nodes, k)
    \/ HasMarker(nodes[k].children)
    \/ HasMarker(nodes[k].num)
    \/ HasMarker(nodes[k].den)
    \/ HasMarker(nodes[k].deg.nodes)
    \/ HasMarker(nodes[k].sub.nodes)
    \/ HasMarker(nodes[k].sup.nodes)
    \/ HasMarker(nodes[k].base)

\* A run with the text ^ or _ in a list of primitives or anywhere below it.
RECURSIVE HasMarkerRun(_)
HasMarkerRun(prims) ==
  \E k \in 1..Len(prims) :
    \/ prims[k].kind = "MathRun" /\ prims[k].text \in {<<"_">>, <<"^">>}
    \/ HasMarkerRun(prims[k].children)
    \/ HasMarkerRun(prims[k].numerator)
    \/ HasMarkerRun(prims[k].denominator)
    \/ HasMarkerRun(prims[k].degree.nodes)
    \/ HasMarkerRun(prims[k].limit)
    \/ HasMarkerRun(prims[k].subScript.nodes)
    \/ HasMarkerRun(prims[k].superScript.nodes)

\* The source holds no \^ and no \_, which are commands and not markers.
NoEscapedMarker(latex) ==
  \A k \in 1..Len(latex) - 1 :
    latex[k] = "\\" => latex[k + 1] \notin {"_", "^"}

\* C23: when every marker that parseLatexToStructure emitted stands between
\* a base and an operand, the tree that buildMathTree returns holds no
\* marker text node at any depth and, the escaped \^ and \_ apart,
\* renderToDocxMath emits no run whose text is ^ or _.
C23_MarkersConsumed ==
  (tex.pc = "done" /\ ~tex.caught /\ MarkersPlaced(tex.rawNodes)) =>
    /\ ~HasMarker(tex.structuredNodes)
    /\ NoEscapedMarker(tex.latex) => ~HasMarkerRun(tex.docxNodes)

(***************************************************************************)
(* C24.                                                                    *)
(***************************************************************************)
\* Node k of the list is a limit node followed by _ and an operand.
LimitWithSub(nodes, k) ==
  /\ nodes[k].type = "limit"
  /\ IsSubMarker(nodes, k + 1)
  /\ k + 2 <= Len(nodes)

\* The operand as the sub of a limit: a group is resolved and flattened.
ResolvedOperand(node) ==
  IF node.type = "group" THEN buildMathTree(node.children) ELSE <<node>>

\* The step of buildMathTree that starts at node k replaces the limit node
\* there as the claim says.
LimitReplaced(k) ==
  /\ tex.i = k
  /\ IF LimitWithSub(tex.rawNodes, k)
     THEN /\ tex'.structuredNodes =
               Append(tex.structuredNodes,
                      LimitNode(tex.rawNodes[k].val,
                                ResolvedOperand(tex.rawNodes[k + 2])))
          /\ tex'.i = k + 3
     ELSE /\ tex'.structuredNodes =
               Append(tex.structuredNodes,
                      TextNode(tex.rawNodes[k].val, "plain"))
          /\ tex'.i = k + 1

\* The nodes that a step of buildMathTree goes past.
PassedBy == {k \in 1..Len(tex.rawNodes) : tex.i <= k /\ k < tex'.i}

\* C24: in every token list, every limit node is replaced by buildMathTree:
\* by one limit node whose sub is the resolved operand, both following
\* tokens consumed, when _ and an operand follow it, and otherwise by a
\* plain text node of its base name, no following token consumed.
C24_LimitResolution ==
  [][\A k \in PassedBy : tex.rawNodes[k].type = "limit" => LimitReplaced(k)]_vars

\* C24 as the code has it: the same for every limit node that the loop
\* reaches as its current node; a limit node that stands right after the
\* marker of the node before it is taken as that node's operand and is not
\* replaced.
C24_LimitResolutionAtCurrent ==
  [][\A k \in PassedBy :
       tex.rawNodes[k].type = "limit" =>
         IF k = tex.i THEN LimitReplaced(k)
         ELSE /\ IsMarker(tex.rawNodes, k - 1)
              /\ k \in {tex.i + 2, tex.i + 4}]_vars

\* A limit node followed by _ and a group was resolved: its sub is the
\* script built from the group's children.
C24_Witness ==
  /\ tex.pc = "render"
  /\ Len(tex.rawNodes) = 3
  /\ LimitWithSub(tex.rawNodes, 1)
  /\ tex.rawNodes[3].type = "group"
  /\ Len(tex.structuredNodes) = 1
  /\ tex.structuredNodes[1].type = "limit"
  /\ Len(tex.structuredNodes[1].sub.nodes) = 1
  /\ tex.structuredNodes[1].sub.nodes[1].type = "script"

(***************************************************************************)
(* C27.                                                                    *)
(***************************************************************************)
OnlyStars(s) == s # << >> /\ \A k \in 1..Len(s) : s[k] = "*"

\* C27: the inline splicer never pushes a bold or italic run whose text is
\* empty, and a text made of * characters only comes out as literal text:
\* no run of it is bold or italic.
C27_NoEmptyStyledRun ==
  /\ \A k \in 1..Len(conv.children) :
       (conv.children[k].bold \/ conv.children[k].italics) =>
         conv.children[k].text # << >>
  /\ (conv.pc = "returned" /\ OnlyStars(conv.text)) =>
       \A k \in 1..Len(conv.children) :
         ~conv.children[k].bold /\ ~conv.children[k].italics

(***************************************************************************)
(* C21.                                                                    *)
(***************************************************************************)
\* C21: every iteration of the main loop of latexToComponents leaves the
\* index i at least one further than it found it, whatever the character
\* it starts on, so the loop ends for every input string.
C21_LoopAdvances ==
  [][conv'.n # conv.n => conv'.i >= conv.i + 1]_vars

(***************************************************************************)
(* withTimeout and generateMermaidImage                                    *)
(***************************************************************************)
\* What withTimeout's promise holds, given what has happened to the wrapped
\* promise and to the timer.
WithTimeoutValue(c) ==
  /\ c.outer \in {"none", "pending", "value", "null"}
  /\ c.outer = "value" <=> (c.inner = "fulfilled" /\ c.timer = "cleared")
  /\ c.outer = "null" <=> (c.timer = "fired" \/ c.inner = "rejected")
  /\ c.outer = "pending" <=> (c.inner = "pending" /\ c.timer = "pending")

\* C25: the promise withTimeout returns settles once and never rejects: it
\* holds the wrapped promise's value exactly if that promise fulfilled while
\* the timer was pending, and null exactly if it rejected or the timer fired
\* first, and once settled it does not change; and every call of
\* generateMermaidImage returns, with bytes or with null, whatever the
\* renderer, the image and the timers do.
C25_WithTimeoutRace ==
  /\ [](\A n \in MermaidCallSites : WithTimeoutValue(call.calls[n]))
  /\ [][\A n \in MermaidCallSites :
          call.calls[n].outer \in {"value", "null"}
            => call'.calls[n].outer = call.calls[n].outer]_vars
  /\ \A n \in MermaidCallSites :
       [](call.calls[n].pc # "idle"
            => <>(/\ call.calls[n].pc = "returned"
                  /\ call.calls[n].result \in {"bytes", "null"}))

\* A render that fulfilled after the timer had fired: the call returned null.
C25_Witness ==
  \E n \in MermaidCallSites :
    /\ call.calls[n].pc = "returned"
    /\ call.calls[n].timer = "fired"
    /\ call.calls[n].inner = "fulfilled"
    /\ call.calls[n].outer = "null"
    /\ call.calls[n].result = "null"

(***************************************************************************)
(* The diagram cache                                                       *)
(***************************************************************************)
\* An entry holds the image of a chart rendered from its key's theme and
\* code, produced by the rasterizer for a call that returned it.
SoundEntry(e) ==
  /\ e.bytes = RenderedBytes(e.key[1], e.key[2])
  /\ e \in call.rendered
  /\ \E n \in MermaidCallSites :
       /\ call.calls[n].result = "bytes"
       /\ ~call.calls[n].hit
       /\ cacheKey(call.calls[n].theme, call.calls[n].code) = e.key
       /\ call.calls[n].bytes = e.bytes

\* A call answered from the cache returned the stored bytes and neither
\* configured mermaid nor invoked the renderer.
ServedFromCache(c) ==
  /\ c.result = "bytes"
  /\ CacheHas(mermaidImageCache, cacheKey(c.theme, c.code))
  /\ c.bytes = CacheGet(mermaidImageCache, cacheKey(c.theme, c.code))
  /\ ~c.configured
  /\ ~c.invoked

\* C26: every entry of the cache is the non-null image of a completed render
\* of exactly its key's theme and code, so a render that failed or timed out
\* stored nothing; and a call whose key is cached returns the stored bytes
\* without invoking the renderer and without changing mermaid's
\* configuration or the cache.
C26_CacheSound ==
  /\ [](\A e \in mermaidImageCache : SoundEntry(e))
  /\ [](\A n \in MermaidCallSites :
          /\ call.calls[n].hit => ServedFromCache(call.calls[n])
          /\ (call.calls[n].pc = "returned" /\ call.calls[n].result = "null")
               => \/ ~CacheHas(mermaidImageCache,
                               cacheKey(call.calls[n].theme, call.calls[n].code))
                  \/ \E m \in MermaidCallSites \ {n} :
                       /\ call.calls[m].result = "bytes"
                       /\ call.calls[m].theme = call.calls[n].theme
                       /\ call.calls[m].code = call.calls[n].code)
  /\ [][\A n \in MermaidCallSites :
          (call'.calls[n].hit /\ ~call.calls[n].hit)
            => /\ call'.config = call.config
               /\ mermaidImageCache' = mermaidImageCache]_vars

\* A call was answered from the cache that an earlier call's render filled.
C26_Witness ==
  \E n, m \in MermaidCallSites :
    /\ call.calls[n].hit
    /\ call.calls[n].pc = "returned"
    /\ call.calls[m].invoked
    /\ call.calls[m].result = "bytes"
    /\ call.calls[m].theme = call.calls[n].theme

(***************************************************************************)
(* The loading counter                                                     *)
(***************************************************************************)
\* The current effect run of a block is over: its cleanup has run or its
\* render has settled or there was nothing to render.
RunOver(e) == e.adds = 1 /\ (~e.isMounted \/ e.render # "pending")

\* C28: every effect run's addLoading is matched by exactly one
\* removeLoading (none while the run is still rendering, one once it is
\* over), loadingCount is never negative, and it is positive whenever a
\* mounted block's mermaid.render has not settled.
C28_LoadingCounter ==
  /\ ui.loadingCount >= 0
  /\ \A b \in Blocks :
       /\ ui.blocks[b].removes <= ui.blocks[b].adds
       /\ RunOver(ui.blocks[b]) => ui.blocks[b].removes = 1
       /\ (ui.blocks[b].mounted /\ ui.blocks[b].render = "pending")
            => ui.loadingCount > 0

(***************************************************************************)
(* The debounce                                                            *)
(***************************************************************************)
\* C29: isDebouncing is true only while a debounce timer is pending, and
\* once the text stops changing the preview settles: from some point on
\* isDebouncing is false and debouncedMarkdown equals markdown.
C29_DebounceSettles ==
  /\ [](ui.isDebouncing => ui.timer = "pending")
  /\ <>[](~ui.isDebouncing /\ ui.debouncedMarkdown = ui.markdown)

(***************************************************************************)
(* ExportButtons                                                           *)
(***************************************************************************)
\* C30: isExporting is true while a Word export is in flight and false when
\* it has settled, at most one export is in flight at a time, and the reset
\* the PDF handler schedules never fires while a Word export is in flight.
C30_ExportExclusive ==
  /\ [](/\ ui.word + ui.pdfTimers <= 1
        /\ ui.word > 0 => ui.isExporting)
  /\ [][/\ ui'.word < ui.word => ~ui'.isExporting
        /\ ui'.pdfResets > ui.pdfResets => ui.word = 0]_vars

\* A Word export is in flight after a PDF export whose reset has fired.
C30_Witness ==
  /\ ui.word = 1
  /\ ui.isExporting
  /\ ui.pdfResets > 0

====
